---- MODULE Spec2Model ----
(***************************************************************************)
(* A model of the token API: the refresh controller of routes/tokens.ts,   *)
(* the swap collector (fetchSwapEvents / fetchAllSwapEvents), the primary  *)
(* price fetcher (fetchCoinGeckoPrices and its helpers) and the            *)
(* aggregation step of fetchAndProcessTokenData.                           *)
(*                                                                         *)
(* Node runs one task at a time: an action of this module is the code      *)
(* that runs between two suspension points (await), and the continuation   *)
(* of a settled promise (a microtask) runs before any timer, request or    *)
(* I/O callback.                                                           *)
(*                                                                         *)
(* Five specifications share the module:                                   *)
(*   Spec       the refresh controller, its timer, the metadata loads and  *)
(*              the read routes;                                           *)
(*   SpecAgg    the aggregation of one refresh pass as a function of the   *)
(*              collected events, the address list and the price result;   *)
(*   SpecSwap   fetchAllSwapEvents against an arbitrary feed;              *)
(*   SpecPrice  fetchCoinGeckoPrices against an arbitrary primary source;  *)
(*   SpecFetch  fetchPrices: the primary result and the fallback source.   *)
(***************************************************************************)
EXTENDS Integers, Sequences, FiniteSets, TLC

\* ------------------------------------------------------------------------
\* Values
\* ------------------------------------------------------------------------

\* JavaScript's null where a number is expected (usd: number | null).
Null == -1

\* The address strings of the model: two tokens, one of them also in a
\* mixed-case and in a padded spelling, and the empty string.
LowerAddrs == {"0xaa", "0xbb"}
AllAddrs == {"", "0xaa", "0xAA", " 0xaa", "0xbb"}

\* String.prototype.toLowerCase on the address strings of the model.
toLowerCase(s) == IF s = "0xAA" THEN "0xaa" ELSE s

\* String.prototype.trim on the address strings of the model.
trim(s) == IF s = " 0xaa" THEN "0xaa" ELSE s

\* ------------------------------------------------------------------------
\* Aggregation (fetchAndProcessTokenData, the synchronous part)
\* ------------------------------------------------------------------------

\* A swap event as fetchAllSwapEvents returns it: the three fields the
\* refresh validates.  An empty string is a present but empty field.
SwapEvent(sold, bought, time) ==
    [token_sold_address |-> sold, token_bought_address |-> bought, block_time |-> time]

\* if (!e.token_sold_address || !e.token_bought_address || !e.block_time) continue
EventHasRequiredFields(e) ==
    e.token_sold_address # "" /\ e.token_bought_address # "" /\ e.block_time # ""

\* grouped.get(addr) || { sells: 0, buys: 0 }
GroupedGet(grouped, addr) ==
    IF addr \in DOMAIN grouped THEN grouped[addr] ELSE [sells |-> 0, buys |-> 0]

\* grouped.set(addr, v)
MapSet(m, k, v) == [x \in DOMAIN m \cup {k} |-> IF x = k THEN v ELSE m[x]]

\* GroupOne counting a sale for the bought token as well.
GroupOneSellsBoth(grouped, e) ==
    IF ~EventHasRequiredFields(e) THEN grouped
    ELSE LET sellAddr == trim(toLowerCase(e.token_sold_address))
             buyAddr == trim(toLowerCase(e.token_bought_address))
             sellData == GroupedGet(grouped, sellAddr)
             g1 == MapSet(grouped, sellAddr, [sellData EXCEPT !.sells = @ + 1])
             buyData == GroupedGet(g1, buyAddr)
         IN MapSet(g1, buyAddr, [buyData EXCEPT !.sells = @ + 1])

\* One iteration of the grouping loop.
GroupOne(grouped, e) ==
    IF ~EventHasRequiredFields(e) THEN grouped
    ELSE LET sellAddr == trim(toLowerCase(e.token_sold_address))
             buyAddr == trim(toLowerCase(e.token_bought_address))
             sellData == GroupedGet(grouped, sellAddr)
             g1 == MapSet(grouped, sellAddr, [sellData EXCEPT !.sells = @ + 1])
             buyData == GroupedGet(g1, buyAddr)
         IN MapSet(g1, buyAddr, [buyData EXCEPT !.buys = @ + 1])

\* for (const e of events) { ... }; starts from an empty Map.
RECURSIVE GroupFrom(_, _, _)
GroupFrom(events, i, grouped) ==
    IF i > Len(events) THEN grouped
    ELSE GroupFrom(events, i + 1, GroupOne(grouped, events[i]))

GroupEvents(events) == GroupFrom(events, 1, <<>>)

\* The TokenPriceInfo used when prices has no entry for the address.
DefaultPriceInfo == [usd |-> Null, buys |-> 0, sells |-> 0, source |-> "none"]

\* prices[normalizedAddr] || { usd: null, ... }
PriceInfoOf(prices, addr) ==
    IF addr \in DOMAIN prices THEN prices[addr] ELSE DefaultPriceInfo

\* const totalSells = (priceInfo.sells || 0) + swapInfo.sells
TotalSells(priceInfo, swapInfo) == priceInfo.sells + swapInfo.sells

\* TotalBuys that drops the price source's count.
TotalBuysSwapOnly(priceInfo, swapInfo) == swapInfo.buys

\* const totalBuys = (priceInfo.buys || 0) + swapInfo.buys
TotalBuys(priceInfo, swapInfo) == priceInfo.buys + swapInfo.buys

\* The TokenResponseDto built for one address of the address list.
TokenRecord(addr, grouped, prices, time) ==
    LET normalizedAddr == trim(toLowerCase(addr))
        priceInfo == PriceInfoOf(prices, normalizedAddr)
        swapInfo == GroupedGet(grouped, normalizedAddr)
    IN [contractAddress |-> addr,
        currentPrice |-> priceInfo.usd,
        priceUpdatedAt |-> time,
        info |-> [sells |-> TotalSells(priceInfo, swapInfo),
                  buys |-> TotalBuys(priceInfo, swapInfo),
                  bondedAt |-> Null]]

\* The source attribution of one address of the address list: the branch of
\* the if / else-if chain over hasDuneData, hasDexScreenerData and
\* hasCoinGeckoPrice that counts it, "none" when no branch does.
SourceClass(addr, grouped, prices) ==
    LET normalizedAddr == trim(toLowerCase(addr))
        priceInfo == PriceInfoOf(prices, normalizedAddr)
        swapInfo == GroupedGet(grouped, normalizedAddr)
        hasDuneData == swapInfo.sells > 0 \/ swapInfo.buys > 0
        hasDexScreenerData == priceInfo.usd # Null \/ priceInfo.sells > 0
                              \/ priceInfo.buys > 0
        hasCoinGeckoPrice == priceInfo.source = "coingecko"
    IN IF hasDuneData /\ (hasDexScreenerData \/ hasCoinGeckoPrice) THEN "both"
       ELSE IF hasDuneData THEN "dune"
       ELSE IF hasCoinGeckoPrice THEN "coingecko"
       ELSE IF hasDexScreenerData THEN "dexscreener"
       ELSE "none"

\* A filter predicate that takes any entry of prices for price data.
HasAnyDataEntryOnly(token, grouped, prices) ==
    LET addr == toLowerCase(token.contractAddress)
        hasDuneData == addr \in DOMAIN grouped
                       /\ (grouped[addr].sells > 0 \/ grouped[addr].buys > 0)
    IN hasDuneData \/ addr \in DOMAIN prices

\* The predicate of allTokenData.filter(...).
HasAnyData(token, grouped, prices) ==
    LET addr == toLowerCase(token.contractAddress)
        hasDuneData == addr \in DOMAIN grouped
                       /\ (grouped[addr].sells > 0 \/ grouped[addr].buys > 0)
        hasPriceData == addr \in DOMAIN prices
                        /\ (prices[addr].usd # Null \/ prices[addr].sells > 0
                            \/ prices[addr].buys > 0)
    IN hasDuneData \/ hasPriceData

\* CONFIG.FILTER_TOKENS_WITHOUT_DATA
FILTER_TOKENS_WITHOUT_DATA == TRUE

\* allTokenData and the filter: what a successful refresh pass returns.
BuildTokenData(addresses, grouped, prices, time, filter) ==
    LET allTokenData == [i \in 1..Len(addresses) |->
                            TokenRecord(addresses[i], grouped, prices, time)]
        keep(token) == HasAnyData(token, grouped, prices)
    IN IF filter THEN SelectSeq(allTokenData, keep) ELSE allTokenData


\* ------------------------------------------------------------------------
\* State
\* ------------------------------------------------------------------------

VARIABLES
    now,                \* Date.now()
    started,            \* the modules have been evaluated (process start)
    tokenMetadata,      \* metadataService: let tokenMetadata
    load,               \* the loadTokenMetadata() calls: state and rows read
    cachedTokenData,    \* routes/tokens: the served snapshot
    lastFetchTime,      \* routes/tokens: the snapshot's build time
    metadataLoaded,     \* routes/tokens
    isCurrentlyLoading, \* routes/tokens: the single-flight flag
    lastFetchStatus,    \* routes/tokens: the status record
    pc,                 \* per refresh trigger: where its task stands
    local,              \* per refresh trigger: grouped, addresses, returned value
    ticks,              \* timer ticks fired so far
    extCalls,           \* calls of fetchAllSwapEvents / fetchPrices issued so far
    response,           \* the last response a route sent
    hist,               \* observations of the run (what the properties read)
    aggIn,              \* SpecAgg: the events, addresses and prices of a pass
    aggOut,             \* SpecAgg: grouped and the records built from them
    swIn,               \* SpecSwap: the feed and the maxEvents argument
    sw,                 \* SpecSwap: the locals of fetchAllSwapEvents / fetchSwapEvents
    swLog,              \* SpecSwap: the page fetches made and what they returned
    priceCache,         \* priceService: the price cache
    seiTokensMap,       \* priceService: the address-to-id map, or null
    lastTokenListFetch, \* priceService: when the map was fetched
    cg,                 \* SpecPrice: the locals of fetchCoinGeckoPrices and helpers
    cgLog,              \* SpecPrice: the requests of the call and what it observed
    fpIn,               \* SpecFetch: the addresses and the primary source's result
    fp,                 \* SpecFetch: the locals of fetchPrices
    fpLog,              \* SpecFetch: the fallback requests made
    bo                  \* SpecBackoff: one primary request and its retries

ctlButNow == <<started, tokenMetadata, load, cachedTokenData, lastFetchTime,
               metadataLoaded, isCurrentlyLoading, lastFetchStatus, pc, local,
               ticks, extCalls, response, hist>>

ctlVars == <<now, ctlButNow>>

aggVars == <<aggIn, aggOut>>

swapVars == <<swIn, sw, swLog>>

priceVars == <<priceCache, seiTokensMap, lastTokenListFetch, cg, cgLog>>

fetchVars == <<fpIn, fp, fpLog>>

backoffVars == <<bo>>

\* ------------------------------------------------------------------------
\* The refresh controller (routes/tokens.ts)
\* ------------------------------------------------------------------------

\* Timer ticks the model follows.
MaxTicks == 2

\* CONFIG.CACHE_DURATION, in milliseconds.
CACHE_DURATION == 5 * 60 * 1000

\* The clock at process start: later than any build time of 0.
StartTime == 7 * 24 * 60 * 60 * 1000

\* The refresh triggers: 0 is the call at module evaluation, k > 0 the k-th
\* timer tick.
Callers == 0..MaxTicks

\* The loadTokenMetadata() calls: the bootstrap's, and one per refresh.
BootLoad == MaxTicks + 1
Loads == 0..BootLoad

\* The rows of data/sei_all_tokens_no_dup_CA_or_name.csv (contract_address).
CsvRows == <<"0xAA", "0xbb">>

\* What fetchAllSwapEvents may hand to a refresh.
CollectorResults ==
    { <<>>,
      <<SwapEvent("0xAA", "0xbb", "t1"), SwapEvent("0xbb", " 0xaa", "t2"),
        SwapEvent("0xbb", "", "t3")>> }

\* A TokenPriceInfo as fetchPrices builds it.
PriceInfo(usd, buys, sells, source) ==
    [usd |-> usd, buys |-> buys, sells |-> sells, source |-> source]

\* What fetchPrices may hand to a refresh.
PriceResults ==
    { <<>>,
      [a \in {"0xaa", "0xbb"} |->
          IF a = "0xaa" THEN PriceInfo(150, 0, 0, "coingecko")
          ELSE PriceInfo(Null, 3, 1, "dexscreener")] }

\* The status record as reset at the start of a refresh (and at module load,
\* with timestamp 0).
FreshStatus(time) ==
    [success |-> FALSE, timestamp |-> time, error |-> FALSE,
     duneEventsCount |-> 0, dexScreenerTokensCount |-> 0,
     coinGeckoTokensCount |-> 0, totalTokensProcessed |-> 0]

NoLocal == [grouped |-> <<>>, addresses |-> <<>>, value |-> <<>>]

\* A settled promise's continuation is queued: it runs before any timer,
\* request or I/O callback.
MicrotaskPending == \E c \in Callers : pc[c] \in {"resolved", "rejected"}

\* getAllTokenAddresses()
getAllTokenAddresses == tokenMetadata

\* The refresh body is in progress in task c (past the guard, not returned).
InBody(c) == pc[c] \in {"loadMeta", "swaps", "prices"}

\* What the properties read of a run: whether trigger c arrived during a
\* refresh, the snapshot and build time when the running refresh started,
\* the events the running refresh collected, the value the last successful
\* refresh returned, and the events and prices it was built from.
NoHist ==
    [busy |-> [c \in Callers |-> FALSE],
     atStart |-> [data |-> <<>>, time |-> 0],
     events |-> <<>>,
     good |-> <<>>,
     from |-> [set |-> FALSE, events |-> <<>>, prices |-> <<>>]]

NoResponse == [code |-> 0, route |-> "none", query |-> <<>>, body |-> <<>>]

\* FetchEnter with the flag set only after the first await instead of
\* before it: the entry step leaves isCurrentlyLoading as it was.
FetchEnterLateFlag(c, ld) ==
    IF isCurrentlyLoading
    THEN /\ pc' = [pc EXCEPT ![c] = "resolved"]
         /\ local' = [local EXCEPT ![c].value = cachedTokenData]
         /\ load' = ld
         /\ UNCHANGED <<isCurrentlyLoading, lastFetchStatus, extCalls>>
         /\ hist' = [hist EXCEPT !.busy[c] = isCurrentlyLoading]
    ELSE /\ UNCHANGED isCurrentlyLoading
         /\ lastFetchStatus' = FreshStatus(now')
         /\ local' = [local EXCEPT ![c] = NoLocal]
         /\ hist' = [hist EXCEPT !.busy[c] = isCurrentlyLoading,
                                 !.atStart = [data |-> cachedTokenData,
                                              time |-> lastFetchTime]]
         /\ IF ~metadataLoaded
            THEN /\ pc' = [pc EXCEPT ![c] = "loadMeta"]
                 /\ load' = [ld EXCEPT ![c] = [st |-> "reading", pos |-> 0]]
                 /\ UNCHANGED extCalls
            ELSE /\ pc' = [pc EXCEPT ![c] = "swaps"]
                 /\ extCalls' = extCalls + 1
                 /\ load' = ld

\* FetchEnter with a status reset that leaves the success field as it was.
FetchEnterKeepsSuccess(c, ld) ==
    IF isCurrentlyLoading
    THEN /\ pc' = [pc EXCEPT ![c] = "resolved"]
         /\ local' = [local EXCEPT ![c].value = cachedTokenData]
         /\ load' = ld
         /\ UNCHANGED <<isCurrentlyLoading, lastFetchStatus, extCalls>>
         /\ hist' = [hist EXCEPT !.busy[c] = isCurrentlyLoading]
    ELSE /\ isCurrentlyLoading' = TRUE
         /\ lastFetchStatus' = [FreshStatus(now') EXCEPT
                                 !.success = lastFetchStatus.success]
         /\ local' = [local EXCEPT ![c] = NoLocal]
         /\ hist' = [hist EXCEPT !.busy[c] = isCurrentlyLoading,
                                 !.atStart = [data |-> cachedTokenData,
                                              time |-> lastFetchTime]]
         /\ IF ~metadataLoaded
            THEN /\ pc' = [pc EXCEPT ![c] = "loadMeta"]
                 /\ load' = [ld EXCEPT ![c] = [st |-> "reading", pos |-> 0]]
                 /\ UNCHANGED extCalls
            ELSE /\ pc' = [pc EXCEPT ![c] = "swaps"]
                 /\ extCalls' = extCalls + 1
                 /\ load' = ld

\* fetchAndProcessTokenData up to its first suspension: the guard, the status
\* reset, and the call of loadTokenMetadata or of fetchAllSwapEvents.  ld is
\* the state of the metadata loads at the call.
FetchEnter(c, ld) ==
    IF isCurrentlyLoading
    THEN /\ pc' = [pc EXCEPT ![c] = "resolved"]
         /\ local' = [local EXCEPT ![c].value = cachedTokenData]
         /\ load' = ld
         /\ UNCHANGED <<isCurrentlyLoading, lastFetchStatus, extCalls>>
         /\ hist' = [hist EXCEPT !.busy[c] = isCurrentlyLoading]
    ELSE /\ isCurrentlyLoading' = TRUE
         /\ lastFetchStatus' = FreshStatus(now')
         /\ local' = [local EXCEPT ![c] = NoLocal]
         /\ hist' = [hist EXCEPT !.busy[c] = isCurrentlyLoading,
                                 !.atStart = [data |-> cachedTokenData,
                                              time |-> lastFetchTime]]
         /\ IF ~metadataLoaded
            THEN /\ pc' = [pc EXCEPT ![c] = "loadMeta"]
                 /\ load' = [ld EXCEPT ![c] = [st |-> "reading", pos |-> 0]]
                 /\ UNCHANGED extCalls
            ELSE /\ pc' = [pc EXCEPT ![c] = "swaps"]
                 /\ extCalls' = extCalls + 1
                 /\ load' = ld

\* Process start: routes/tokens is evaluated (its refresh call runs to the
\* first await), then the bootstrap calls loadTokenMetadata().
Startup ==
    /\ ~started
    /\ started' = TRUE
    /\ now' = now
    /\ FetchEnter(0, [load EXCEPT ![BootLoad] = [st |-> "reading", pos |-> 0]])
    /\ response' = NoResponse
    /\ UNCHANGED <<tokenMetadata, cachedTokenData, lastFetchTime, metadataLoaded,
                   ticks>>

\* TimerTick without the callback's own test of isCurrentlyLoading: every
\* tick calls fetchAndProcessTokenData and installs what it returns.
TimerTickNoTest ==
    /\ started /\ ~MicrotaskPending
    /\ ticks < MaxTicks
    /\ ticks' = ticks + 1
    /\ now' = now + CACHE_DURATION
    /\ response' = NoResponse
    /\ FetchEnter(ticks + 1, load)
    /\ UNCHANGED <<started, tokenMetadata, cachedTokenData, lastFetchTime,
                   metadataLoaded>>

\* The setInterval callback, CACHE_DURATION after the previous one.
TimerTick ==
    /\ started /\ ~MicrotaskPending
    /\ ticks < MaxTicks
    /\ ticks' = ticks + 1
    /\ now' = now + CACHE_DURATION
    /\ response' = NoResponse
    /\ IF ~isCurrentlyLoading
       THEN FetchEnter(ticks + 1, load)
       ELSE /\ pc' = [pc EXCEPT ![ticks + 1] = "skipped"]
            /\ hist' = [hist EXCEPT !.busy[ticks + 1] = TRUE]
            /\ UNCHANGED <<isCurrentlyLoading, lastFetchStatus, local, load,
                           extCalls>>
    /\ UNCHANGED <<started, tokenMetadata, cachedTokenData, lastFetchTime,
                   metadataLoaded>>

\* The rows of the file as the 'data' handler pushes them.
ParsedRows == [i \in DOMAIN CsvRows |-> toLowerCase(CsvRows[i])]

\* The 'data' events of a metadata stream: the file is read in one chunk,
\* and every row of it is pushed.
LoadRow(l) ==
    /\ started /\ ~MicrotaskPending
    /\ load[l].st = "reading"
    /\ load[l].pos = 0
    /\ load' = [load EXCEPT ![l].pos = Len(CsvRows)]
    /\ tokenMetadata' = tokenMetadata \o ParsedRows
    /\ response' = NoResponse
    /\ UNCHANGED <<now, started, cachedTokenData, lastFetchTime, metadataLoaded,
                   isCurrentlyLoading, lastFetchStatus, pc, local, ticks,
                   extCalls, hist>>

\* The 'end' event of a metadata stream: its promise resolves.  A refresh
\* waiting for it goes on to call fetchAllSwapEvents.
LoadEnd(l) ==
    /\ started /\ ~MicrotaskPending
    /\ load[l].st = "reading"
    /\ load[l].pos = Len(CsvRows)
    /\ load' = [load EXCEPT ![l] = [st |-> "ended", pos |-> 0]]
    /\ response' = NoResponse
    /\ IF l \in Callers
       THEN /\ pc[l] = "loadMeta"
            /\ metadataLoaded' = TRUE
            /\ pc' = [pc EXCEPT ![l] = "swaps"]
            /\ extCalls' = extCalls + 1
       ELSE UNCHANGED <<metadataLoaded, pc, extCalls>>
    /\ UNCHANGED <<now, started, tokenMetadata, cachedTokenData, lastFetchTime,
                   isCurrentlyLoading, lastFetchStatus, local, ticks, hist>>

\* FetchFails without the finally block: a failed refresh keeps the flag.
FetchFailsKeepsFlag(c) ==
    /\ lastFetchStatus' = [lastFetchStatus EXCEPT !.error = TRUE]
    /\ UNCHANGED isCurrentlyLoading
    /\ pc' = [pc EXCEPT ![c] = "rejected"]

\* FetchFails without the catch block's assignment to lastFetchStatus.error.
FetchFailsUnrecorded(c) ==
    /\ UNCHANGED lastFetchStatus
    /\ isCurrentlyLoading' = FALSE
    /\ pc' = [pc EXCEPT ![c] = "rejected"]

\* The catch and finally blocks of fetchAndProcessTokenData.
FetchFails(c) ==
    /\ lastFetchStatus' = [lastFetchStatus EXCEPT !.error = TRUE]
    /\ isCurrentlyLoading' = FALSE
    /\ pc' = [pc EXCEPT ![c] = "rejected"]

\* The 'error' event of a metadata stream: its promise rejects, and a refresh
\* waiting for it fails.
LoadError(l) ==
    /\ started /\ ~MicrotaskPending
    /\ load[l].st = "reading"
    /\ load' = [load EXCEPT ![l] = [st |-> "error", pos |-> 0]]
    /\ response' = NoResponse
    /\ IF l \in Callers
       THEN pc[l] = "loadMeta" /\ FetchFails(l)
       ELSE UNCHANGED <<isCurrentlyLoading, lastFetchStatus, pc>>
    /\ UNCHANGED <<now, started, tokenMetadata, cachedTokenData, lastFetchTime,
                   metadataLoaded, local, ticks, extCalls, hist>>

\* fetchAllSwapEvents has resolved: the events are grouped, the addresses
\* listed, and fetchPrices is called.
SwapsDone(c) ==
    /\ ~MicrotaskPending
    /\ pc[c] = "swaps"
    /\ \E events \in CollectorResults :
        /\ lastFetchStatus' = [lastFetchStatus EXCEPT !.duneEventsCount = Len(events)]
        /\ local' = [local EXCEPT ![c].grouped = GroupEvents(events),
                                  ![c].addresses = getAllTokenAddresses]
        /\ hist' = [hist EXCEPT !.events = events]
    /\ pc' = [pc EXCEPT ![c] = "prices"]
    /\ extCalls' = extCalls + 1
    /\ response' = NoResponse
    /\ UNCHANGED <<now, started, tokenMetadata, load, cachedTokenData,
                   lastFetchTime, metadataLoaded, isCurrentlyLoading, ticks>>

\* Object.values(prices).filter(p => p.source === 'coingecko').length
CoinGeckoCount(prices) ==
    Cardinality({a \in DOMAIN prices : prices[a].source = "coingecko"})

\* fetchPrices has resolved: the records are built and filtered, the status
\* is updated, the flag is released and the function returns.
PricesDone(c) ==
    /\ ~MicrotaskPending
    /\ pc[c] = "prices"
    /\ \E prices \in PriceResults :
        LET filteredTokenData ==
                BuildTokenData(local[c].addresses, local[c].grouped, prices, now,
                               FILTER_TOKENS_WITHOUT_DATA)
        IN /\ lastFetchStatus' =
                  [lastFetchStatus EXCEPT
                      !.dexScreenerTokensCount = Cardinality(DOMAIN prices),
                      !.coinGeckoTokensCount = CoinGeckoCount(prices),
                      !.success = TRUE,
                      !.totalTokensProcessed = Len(filteredTokenData)]
           /\ local' = [local EXCEPT ![c] = [NoLocal EXCEPT !.value = filteredTokenData]]
           /\ hist' = [hist EXCEPT !.good = filteredTokenData,
                                   !.events = <<>>,
                                   !.from = [set |-> TRUE, events |-> hist.events,
                                             prices |-> prices]]
    /\ isCurrentlyLoading' = FALSE
    /\ pc' = [pc EXCEPT ![c] = "resolved"]
    /\ response' = NoResponse
    /\ UNCHANGED <<now, started, tokenMetadata, load, cachedTokenData,
                   lastFetchTime, metadataLoaded, ticks, extCalls>>

\* Continue with skipped ticks queued: when a refresh has settled, the
\* refresh of every tick skipped meanwhile is started.
ContinueRunsSkipped(c) ==
    /\ pc[c] \in {"resolved", "rejected"}
    /\ IF pc[c] = "resolved"
       THEN /\ cachedTokenData' = local[c].value
            /\ lastFetchTime' = now
       ELSE UNCHANGED <<cachedTokenData, lastFetchTime>>
    /\ pc' = [d \in Callers |->
                IF d = c THEN (IF pc[c] = "resolved" THEN "done" ELSE "failed")
                ELSE IF pc[d] = "skipped" THEN "swaps" ELSE pc[d]]
    /\ isCurrentlyLoading' = \E d \in Callers : pc[d] = "skipped"
    /\ local' = [local EXCEPT ![c] = NoLocal]
    /\ response' = NoResponse
    /\ UNCHANGED <<now, started, tokenMetadata, load, metadataLoaded,
                   lastFetchStatus, ticks, extCalls, hist>>

\* Continue with the build time stamped whether or not the refresh succeeded.
ContinueStampsAlways(c) ==
    /\ pc[c] \in {"resolved", "rejected"}
    /\ IF pc[c] = "resolved"
       THEN /\ cachedTokenData' = local[c].value
            /\ pc' = [pc EXCEPT ![c] = "done"]
       ELSE /\ pc' = [pc EXCEPT ![c] = "failed"]
            /\ UNCHANGED cachedTokenData
    /\ lastFetchTime' = now
    /\ isCurrentlyLoading' = IF c = 0 THEN FALSE ELSE isCurrentlyLoading
    /\ local' = [local EXCEPT ![c] = NoLocal]
    /\ response' = NoResponse
    /\ UNCHANGED <<now, started, tokenMetadata, load, metadataLoaded,
                   lastFetchStatus, ticks, extCalls, hist>>

\* Continue with a suspension between its two assignments: the snapshot is
\* installed when the promise has settled, the build time in a later task.
ContinueSuspends(c) ==
    /\ pc[c] \in {"resolved", "rejected", "stamping"}
    /\ IF pc[c] = "resolved"
       THEN /\ cachedTokenData' = local[c].value
            /\ pc' = [pc EXCEPT ![c] = "stamping"]
            /\ UNCHANGED <<lastFetchTime, isCurrentlyLoading, local>>
       ELSE /\ IF pc[c] = "stamping"
               THEN /\ lastFetchTime' = now
                    /\ pc' = [pc EXCEPT ![c] = "done"]
               ELSE /\ pc' = [pc EXCEPT ![c] = "failed"]
                    /\ UNCHANGED lastFetchTime
            /\ isCurrentlyLoading' = IF c = 0 THEN FALSE ELSE isCurrentlyLoading
            /\ local' = [local EXCEPT ![c] = NoLocal]
            /\ UNCHANGED cachedTokenData
    /\ response' = NoResponse
    /\ UNCHANGED <<now, started, tokenMetadata, load, metadataLoaded,
                   lastFetchStatus, ticks, extCalls, hist>>

\* Continue that installs a returned value only if it holds a record.
ContinueKeepsNonEmpty(c) ==
    /\ pc[c] \in {"resolved", "rejected"}
    /\ IF pc[c] = "resolved"
       THEN /\ cachedTokenData' = IF local[c].value = <<>> THEN cachedTokenData
                                   ELSE local[c].value
            /\ lastFetchTime' = now
            /\ pc' = [pc EXCEPT ![c] = "done"]
       ELSE /\ pc' = [pc EXCEPT ![c] = "failed"]
            /\ UNCHANGED <<cachedTokenData, lastFetchTime>>
    /\ isCurrentlyLoading' = IF c = 0 THEN FALSE ELSE isCurrentlyLoading
    /\ local' = [local EXCEPT ![c] = NoLocal]
    /\ response' = NoResponse
    /\ UNCHANGED <<now, started, tokenMetadata, load, metadataLoaded,
                   lastFetchStatus, ticks, extCalls, hist>>

\* The continuation of the caller once the refresh's promise has settled:
\* the .then / .catch of the call at module evaluation, or the rest of the
\* timer callback after its await.
Continue(c) ==
    /\ pc[c] \in {"resolved", "rejected"}
    /\ IF pc[c] = "resolved"
       THEN /\ cachedTokenData' = local[c].value
            /\ lastFetchTime' = now
            /\ pc' = [pc EXCEPT ![c] = "done"]
       ELSE /\ pc' = [pc EXCEPT ![c] = "failed"]
            /\ UNCHANGED <<cachedTokenData, lastFetchTime>>
    /\ isCurrentlyLoading' = IF c = 0 THEN FALSE ELSE isCurrentlyLoading
    /\ local' = [local EXCEPT ![c] = NoLocal]
    /\ response' = NoResponse
    /\ UNCHANGED <<now, started, tokenMetadata, load, metadataLoaded,
                   lastFetchStatus, ticks, extCalls, hist>>


\* ------------------------------------------------------------------------
\* The read routes (routes/tokens.ts)
\* ------------------------------------------------------------------------

\* arr.slice(a, b)
Slice(arr, a, b) ==
    LET hi == IF b < Len(arr) THEN b ELSE Len(arr)
    IN IF a >= hi THEN <<>> ELSE SubSeq(arr, a + 1, hi)

\* The indices of arr in the order of a stable sort by ascending rank.
RECURSIVE StableOrder(_, _)
StableOrder(idx, rank) ==
    IF idx = {} THEN <<>>
    ELSE LET first == CHOOSE i \in idx :
                 \A j \in idx : rank[i] < rank[j] \/ (rank[i] = rank[j] /\ i <= j)
         IN <<first>> \o StableOrder(idx \ {first}, rank)

\* A sorted copy of arr: Array.prototype.sort with a comparator that puts a
\* before b exactly when rank(a) < rank(b).
SortedByRank(arr, rank) ==
    LET order == StableOrder(DOMAIN arr, rank)
    IN [i \in DOMAIN arr |-> arr[order[i]]]

\* A rank above every price: where the comparator puts null.
NullRank == 1000000

\* Math.ceil(a / b) for a >= 0, b > 0.
CeilDiv(a, b) == (a + b - 1) \div b

SEVEN_DAYS == 7 * 24 * 60 * 60 * 1000

\* The query parameters as the handler parses them.  addresses is the set
\* query.addresses.split(',').map(a => a.trim().toLowerCase()), empty when
\* the parameter is absent.
Query(page, limit, isBonded, isMostSwapped, new, addresses, order, sort) ==
    [page |-> page, limit |-> limit, isBonded |-> isBonded,
     isMostSwapped |-> isMostSwapped, new |-> new, addresses |-> addresses,
     order |-> order, sort |-> sort]

\* The GET /tokens requests of the model.
TokensQueries ==
    { Query(1, 50, FALSE, FALSE, FALSE, {}, "", "desc"),
      Query(1, 50, FALSE, FALSE, FALSE, {}, "currentPrice", "asc"),
      Query(1, 50, FALSE, TRUE, TRUE, {trim(toLowerCase("0xAA")), "0xbb"},
            "currentPrice", "asc"),
      Query(2, 1, TRUE, FALSE, FALSE, {}, "currentPrice", "desc") }

\* The GET /tokens/top-traded requests of the model.
TopTradedQueries ==
    { Query(1, 10, FALSE, FALSE, FALSE, {}, "", "desc") }

TotalSwaps(token) == token.info.buys + token.info.sells

\* The page a handler sends.
Page(data, q) ==
    LET offset == (q.page - 1) * q.limit
    IN [data |-> Slice(data, offset, offset + q.limit),
        meta |-> [page |-> q.page, limit |-> q.limit,
                  totalItemsCount |-> Len(data),
                  pagesCount |-> CeilDiv(Len(data), q.limit)]]

\* TokensHandler passing on the error of the last refresh: a 500 while the
\* status record holds one.
TokensHandlerRaises(cache, q, time) ==
    [cache |-> cache,
     response |-> [code |-> IF lastFetchStatus.error THEN 500 ELSE 200,
                   route |-> "tokens", query |-> q,
                   body |-> Page(cache, q)]]

\* The body of GET /tokens: filters, ordering and pagination of a copy of the
\* snapshot.  cache is the snapshot array after the handler has run.
TokensHandler(cache, q, time) ==
    LET data0 == cache
        inFilter(token) == toLowerCase(token.contractAddress) \in q.addresses
        data1 == IF q.addresses # {} THEN SelectSeq(data0, inFilter) ELSE data0
        bonded(token) == token.info.bondedAt # Null
        data2 == IF q.isBonded THEN SelectSeq(data1, bonded) ELSE data1
        swapRank == [i \in DOMAIN data2 |-> 0 - TotalSwaps(data2[i])]
        topCount == IF CeilDiv(Len(data2), 4) > 1 THEN CeilDiv(Len(data2), 4) ELSE 1
        data3 == IF q.isMostSwapped
                 THEN Slice(SortedByRank(data2, swapRank), 0, topCount)
                 ELSE data2
        recent(token) == token.priceUpdatedAt >= time - SEVEN_DAYS
        data4 == IF q.new THEN SelectSeq(data3, recent) ELSE data3
        priceRank == [i \in DOMAIN data4 |->
                         IF data4[i].currentPrice = Null THEN NullRank
                         ELSE IF q.sort = "asc" THEN data4[i].currentPrice
                         ELSE 0 - data4[i].currentPrice]
        data5 == IF q.order = "currentPrice" THEN SortedByRank(data4, priceRank)
                 ELSE data4
    IN [cache |-> cache,
        response |-> [code |-> 200, route |-> "tokens", query |-> q,
                      body |-> Page(data5, q)]]

\* TopTradedHandler sorting the snapshot array itself instead of a copy.
TopTradedHandlerInPlace(cache, q) ==
    LET rank == [i \in DOMAIN cache |-> 0 - TotalSwaps(cache[i])]
        sortedData == SortedByRank(cache, rank)
    IN [cache |-> sortedData,
        response |-> [code |-> 200, route |-> "top-traded", query |-> q,
                      body |-> Page(sortedData, q)]]

\* The body of GET /tokens/top-traded.
TopTradedHandler(cache, q) ==
    LET rank == [i \in DOMAIN cache |-> 0 - TotalSwaps(cache[i])]
        sortedData == SortedByRank(cache, rank)
    IN [cache |-> cache,
        response |-> [code |-> 200, route |-> "top-traded", query |-> q,
                      body |-> Page(sortedData, q)]]

\* The body of GET /tokens/status.
StatusHandler(time) ==
    LET cacheAge == time - lastFetchTime
    IN [code |-> 200, route |-> "status", query |-> <<>>,
        body |-> [last_refresh |-> lastFetchTime,
                  cache_status |-> IF cacheAge < CACHE_DURATION THEN "fresh" ELSE "stale",
                  total_tokens |-> Len(cachedTokenData),
                  last_fetch |-> lastFetchStatus,
                  health |-> IF lastFetchStatus.success THEN "healthy" ELSE "degraded"]]

readFrame == <<now, started, tokenMetadata, load, lastFetchTime, metadataLoaded,
               isCurrentlyLoading, lastFetchStatus, pc, local, ticks, extCalls,
               hist>>

GetTokens ==
    /\ started /\ ~MicrotaskPending
    /\ \E q \in TokensQueries :
        LET r == TokensHandler(cachedTokenData, q, now)
        IN cachedTokenData' = r.cache /\ response' = r.response
    /\ UNCHANGED readFrame

GetTopTraded ==
    /\ started /\ ~MicrotaskPending
    /\ \E q \in TopTradedQueries :
        LET r == TopTradedHandler(cachedTokenData, q)
        IN cachedTokenData' = r.cache /\ response' = r.response
    /\ UNCHANGED readFrame

GetStatus ==
    /\ started /\ ~MicrotaskPending
    /\ response' = StatusHandler(now)
    /\ UNCHANGED cachedTokenData
    /\ UNCHANGED readFrame

\* ------------------------------------------------------------------------
\* Specification of the controller
\* ------------------------------------------------------------------------

vars == <<ctlVars, aggVars, swapVars, priceVars, fetchVars, backoffVars>>

\* The variables the controller's actions leave alone.
notCtl == <<aggVars, swapVars, priceVars, fetchVars, backoffVars>>

\* The controller before the process has started.
CtlIdle ==
    /\ now = StartTime
    /\ started = FALSE
    /\ tokenMetadata = <<>>
    /\ load = [l \in Loads |-> [st |-> "none", pos |-> 0]]
    /\ cachedTokenData = <<>>
    /\ lastFetchTime = 0
    /\ metadataLoaded = FALSE
    /\ isCurrentlyLoading = FALSE
    /\ lastFetchStatus = FreshStatus(0)
    /\ pc = [c \in Callers |-> "idle"]
    /\ local = [c \in Callers |-> NoLocal]
    /\ ticks = 0
    /\ extCalls = 0
    /\ response = NoResponse
    /\ hist = NoHist

NoAggIn == [events |-> <<>>, addresses |-> <<>>, prices |-> <<>>]
NoAggOut == [pc |-> "idle", grouped |-> <<>>, classes |-> <<>>, data |-> <<>>,
             unfiltered |-> <<>>]

AggIdle == aggIn = NoAggIn /\ aggOut = NoAggOut

NoSwIn == [feed |-> <<>>, maxEvents |-> 0]
NoSw == [pc |-> "idle", offset |-> 0, allEvents |-> <<>>, hasMore |-> TRUE,
         consecutiveEmptyPages |-> 0, retryCount |-> 0, failures |-> 0]
NoSwLog == [calls |-> <<>>, acc |-> <<>>]

SwapIdle == swIn = NoSwIn /\ sw = NoSw /\ swLog = NoSwLog

\* seiTokensMap: null, or a map from address to TokenInfo.
NoTokensMap == [isNull |-> TRUE, map |-> <<>>]

NoCg == [pc |-> "idle", calls |-> 0, normalizedAddresses |-> <<>>,
         prices |-> <<>>, uncachedAddresses |-> <<>>, coinIdToAddress |-> <<>>, coinIdChunks |-> <<>>,
         chunkIndex |-> 0, retryCount |-> 0, fb |-> 0]
NoCgLog == [listRequests |-> 0, listFailed |-> FALSE, listing |-> {},
            priceRequests |-> <<>>, age |-> <<>>, limited |-> {}]

PriceIdle ==
    /\ priceCache = <<>>
    /\ seiTokensMap = NoTokensMap
    /\ lastTokenListFetch = 0
    /\ cg = NoCg
    /\ cgLog = NoCgLog

NoFpIn == [addresses |-> <<>>, coinGeckoPrices |-> <<>>]
NoFp == [pc |-> "idle", result |-> <<>>, addressesForDexScreener |-> <<>>, i |-> 0]
NoFpLog == [requests |-> <<>>, failed |-> {}]

FetchIdle == fpIn = NoFpIn /\ fp = NoFp /\ fpLog = NoFpLog

\* No request of the model of the retries is under way.
NoBo == [pc |-> "idle", kind |-> "none", coinId |-> "", cached |-> "none",
         retryCount |-> 0, responses |-> <<>>, delays |-> <<>>, usd |-> Null,
         wrote |-> [set |-> FALSE, price |-> Null], value |-> Null]

BackoffIdle == bo = NoBo

Init == CtlIdle /\ AggIdle /\ SwapIdle /\ PriceIdle /\ FetchIdle /\ BackoffIdle

Next ==
    \/ Startup /\ UNCHANGED notCtl
    \/ TimerTick /\ UNCHANGED notCtl
    \/ \E l \in Loads : LoadRow(l) /\ UNCHANGED notCtl
    \/ \E l \in Loads : LoadEnd(l) /\ UNCHANGED notCtl
    \/ \E l \in Loads : LoadError(l) /\ UNCHANGED notCtl
    \/ \E c \in Callers : SwapsDone(c) /\ UNCHANGED notCtl
    \/ \E c \in Callers : PricesDone(c) /\ UNCHANGED notCtl
    \/ \E c \in Callers : Continue(c) /\ UNCHANGED notCtl
    \/ GetTokens /\ UNCHANGED notCtl
    \/ GetTopTraded /\ UNCHANGED notCtl
    \/ GetStatus /\ UNCHANGED notCtl

Spec == Init /\ [][Next]_vars


\* ------------------------------------------------------------------------
\* Properties of the controller (under Spec)
\* ------------------------------------------------------------------------

\* C1: single-flight.  At most one refresh body is in progress at any time,
\* over every interleaving of the startup refresh, the timer ticks, the
\* metadata streams and the reads; and the flag is up whenever a body is in
\* progress, the check and the set being one step.
C1_SingleFlight ==
    /\ Cardinality({c \in Callers : InBody(c)}) <= 1
    /\ (\E c \in Callers : InBody(c)) => isCurrentlyLoading

\* A refresh body is in progress and a timer tick has come during it.
C1_Witness ==
    \E c, d \in Callers : InBody(c) /\ d > c /\ pc[d] = "skipped"

C3_FailureKeepsSnapshot ==
    [][/\ \A c \in Callers :
            (pc[c] # "failed" /\ pc'[c] = "failed")
                => /\ cachedTokenData' = hist.atStart.data
                   /\ lastFetchTime' = hist.atStart.time
       /\ (cachedTokenData' # cachedTokenData \/ lastFetchTime' # lastFetchTime)
            => /\ \E c \in Callers : pc[c] = "resolved" /\ pc'[c] = "done"
               /\ lastFetchStatus.success
               /\ cachedTokenData' = hist.good]_vars

\* A refresh has failed, and a later one has installed its snapshot.
C3_Witness ==
    \E c, d \in Callers :
        /\ pc[c] = "failed" /\ pc[d] = "done"
        /\ lastFetchTime > 0 /\ Len(cachedTokenData) > 0

\* C4: whenever GET /tokens or GET /tokens/top-traded answers, it answers 200
\* with the page computed from the value the last successful refresh
\* returned (the empty snapshot if none).
C4_ReadsServeLastGood ==
    /\ response.route # "none" => response.code = 200
    /\ response.route = "tokens"
         => response = TokensHandler(hist.good, response.query, now).response
    /\ response.route = "top-traded"
         => response = TopTradedHandler(hist.good, response.query).response

\* A read is answered with data while one refresh has failed and another is
\* in progress.
C4_Witness ==
    /\ response.route = "tokens"
    /\ Len(response.body.data) > 0
    /\ \E c, d \in Callers : pc[c] = "failed" /\ InBody(d)


\* C13: a timer tick that fires while a refresh is in progress starts no
\* refresh, then or later: its task ends at the skip, it loads no metadata
\* and makes no external call, now and in every later step, and the step of
\* the tick itself changes neither the snapshot, its build time nor the flag.
C13_BusyTickSkippedNotQueued ==
    [][\A c \in Callers :
          hist'.busy[c] =>
              /\ pc'[c] = "skipped"
              /\ load'[c] = load[c]
              /\ local'[c] = NoLocal
              /\ pc[c] # "skipped" =>
                    /\ isCurrentlyLoading
                    /\ UNCHANGED <<cachedTokenData, lastFetchTime,
                                   isCurrentlyLoading, extCalls>>]_vars

\* A tick was skipped during the refresh started at startup, that refresh
\* has completed and installed its snapshot, and nothing is running.
C13_Witness ==
    /\ hist.busy[1] /\ pc[1] = "skipped"
    /\ pc[0] = "done"
    /\ ~isCurrentlyLoading
    /\ \A c \in Callers : ~InBody(c) /\ pc[c] \notin {"resolved", "rejected"}

\* C15: the snapshot and its build time are installed by one step, the one
\* that continues a refresh that returned: that step sets the snapshot to
\* the whole returned value and the build time to the clock, no other step
\* changes either, and no route answers between the refresh's return and
\* that step.  So whenever a route can answer, the snapshot is the value the
\* last successful refresh returned, the build time is 0 exactly if nothing
\* was installed yet, and GET /tokens/status reports that pair.
C15_SnapshotAndTimeTogether ==
    /\ [](~MicrotaskPending =>
            /\ cachedTokenData = hist.good
            /\ lastFetchTime = 0 <=> \A c \in Callers : pc[c] # "done"
            /\ lastFetchTime <= now)
    /\ [][/\ \A c \in Callers :
               pc[c] = "resolved" =>
                  /\ pc'[c] = "done"
                  /\ cachedTokenData' = local[c].value
                  /\ lastFetchTime' = now'
                  /\ now' = now
                  /\ response'.route = "none"
          /\ (cachedTokenData' # cachedTokenData \/ lastFetchTime' # lastFetchTime)
               => \E c \in Callers : pc[c] = "resolved"
          /\ response'.route = "status" =>
               /\ response'.body.total_tokens = Len(cachedTokenData')
               /\ response'.body.last_refresh = lastFetchTime'
               /\ cachedTokenData' = hist.good]_vars

\* The status route answers after a timer refresh has replaced the snapshot
\* of the startup refresh: it reports the new length with the new time.
C15_Witness ==
    /\ pc[0] = "done" /\ pc[1] = "done"
    /\ response.route = "status"
    /\ response.body.last_refresh = StartTime + CACHE_DURATION
    /\ response.body.total_tokens = Len(hist.good)
    /\ response.body.total_tokens > 0
    /\ hist.atStart.data = <<>> /\ hist.atStart.time = StartTime

C17_MetadataLoadedOnce ==
    /\ \A i, j \in DOMAIN tokenMetadata :
          tokenMetadata[i] = tokenMetadata[j] => i = j
    /\ \A c \in Callers : \A i, j \in DOMAIN local[c].addresses :
          local[c].addresses[i] = local[c].addresses[j] => i = j
    /\ \A i, j \in DOMAIN cachedTokenData :
          cachedTokenData[i].contractAddress = cachedTokenData[j].contractAddress
             => i = j

\* Trigger c's refresh has failed and no refresh of a later trigger has
\* returned (refreshes do not overlap, so a later trigger's refresh is a
\* later refresh).
FailedLast(c) ==
    /\ pc[c] \in {"rejected", "failed"}
    /\ \A d \in Callers : d > c => pc[d] \in {"idle", "skipped", "loadMeta",
                                             "swaps", "prices"}

\* C18 as stated: from the failure of a refresh until a later refresh
\* succeeds, the status record has success = false and the error stored and
\* GET /tokens/status reports 'degraded'; every route answers 200.
C18_Original_FailureStaysRecorded ==
    /\ \A c \in Callers : FailedLast(c) =>
          /\ ~lastFetchStatus.success
          /\ lastFetchStatus.error
          /\ response.route = "status" => response.body.health = "degraded"
    /\ response.route # "none" => response.code = 200

\* C18, amended: from the failure of a refresh until a later refresh
\* succeeds, the status record has success = false and GET /tokens/status
\* reports 'degraded'; the error is stored in the record until the next
\* refresh starts, which resets the record, and not after that.  The
\* rejected promise is settled by its trigger in the next step, in which no
\* route answers, and every route answers 200.
C18_FailureRecordedUntilNextRefresh ==
    /\ [](/\ \A c \in Callers : FailedLast(c) =>
                /\ ~lastFetchStatus.success
                /\ lastFetchStatus.error <=> \A d \in Callers : d > c => ~InBody(d)
                /\ response.route = "status" =>
                      /\ response.body.health = "degraded"
                      /\ response.body.last_fetch = lastFetchStatus
          /\ response.route # "none" => response.code = 200)
    /\ [][\A c \in Callers : pc[c] = "rejected" =>
             pc'[c] = "failed" /\ response'.route = "none"]_vars

\* GET /tokens/status answers while the refresh of the first tick is in
\* progress after the startup refresh failed: 'degraded', no error stored.
C18_Witness ==
    /\ pc[0] = "failed" /\ InBody(1)
    /\ response.route = "status"
    /\ response.body.health = "degraded"
    /\ ~response.body.last_fetch.error
    /\ response.body.last_fetch.timestamp = StartTime + CACHE_DURATION

\* C19: the step in which a refresh returns or fails releases the flag, so
\* the flag is up exactly while a refresh body is in progress; and a timer
\* tick that fires while none is in progress starts a refresh, whatever the
\* outcomes of the refreshes before it.
C19_FlagReleasedTickRefreshes ==
    /\ [](isCurrentlyLoading <=> \E c \in Callers : InBody(c))
    /\ [][/\ \A c \in Callers :
               (InBody(c) /\ ~InBody(c)') =>
                  /\ pc'[c] \in {"resolved", "rejected"}
                  /\ ~isCurrentlyLoading'
          /\ (ticks' = ticks + 1 /\ \A c \in Callers : ~InBody(c)) =>
                  /\ pc'[ticks'] \in {"loadMeta", "swaps", "prices"}
                  /\ isCurrentlyLoading'
                  /\ lastFetchStatus' = FreshStatus(now')]_vars

\* The second tick has started a refresh after the startup refresh failed
\* and the refresh of the first tick succeeded.
C19_Witness ==
    /\ pc[0] = "failed" /\ pc[1] = "done"
    /\ InBody(2) /\ isCurrentlyLoading
    /\ ticks = 2

\* The records of a snapshot without the time they were built at.
Undated(data) ==
    [i \in DOMAIN data |->
        [contractAddress |-> data[i].contractAddress,
         currentPrice |-> data[i].currentPrice,
         info |-> data[i].info]]

\* C33: a successful refresh that collected the same events and was handed
\* the same price results as the successful refresh before it returns the
\* same records with the same counts as that one did.
C33_RebuiltFromScratch ==
    [][\A c \in Callers :
          (/\ pc[c] = "prices" /\ pc'[c] = "resolved"
           /\ hist.from.set
           /\ hist'.from.events = hist.from.events
           /\ hist'.from.prices = hist.from.prices)
              => Undated(hist'.good) = Undated(hist.good)]_vars

\* The refresh that returned last collected no event and was handed no
\* price entry: what fetchAllSwapEvents and fetchPrices resolve with when
\* every request of theirs has failed.
AllSourcesFailed ==
    hist.from.set /\ hist.from.events = <<>> /\ hist.from.prices = <<>>

C37_SuccessResetWhileRefreshing ==
    /\ []((\E c \in Callers : InBody(c)) =>
             /\ ~lastFetchStatus.success
             /\ response.route = "status" =>
                   /\ response.body.health = "degraded"
                   /\ ~response.body.last_fetch.success)
    /\ [][/\ (lastFetchStatus.success /\ ~lastFetchStatus'.success) =>
               \E c \in Callers : ~InBody(c) /\ InBody(c)'
          /\ (~lastFetchStatus.success /\ lastFetchStatus'.success) =>
               \E c \in Callers : pc[c] = "prices" /\ pc'[c] = "resolved"
          /\ \A c \in Callers : (~InBody(c) /\ InBody(c)') =>
               lastFetchStatus' = FreshStatus(now')]_vars

\* GET /tokens/status answers 'degraded' while the refresh of the first tick
\* is in progress; the startup refresh succeeded and its snapshot, which
\* holds records, is served.
C37_Witness ==
    /\ pc[0] = "done" /\ InBody(1)
    /\ cachedTokenData # <<>> /\ cachedTokenData = hist.good
    /\ response.route = "status"
    /\ response.body.health = "degraded"
    /\ ~response.body.last_fetch.success
    /\ response.body.total_tokens = Len(cachedTokenData)

\* ------------------------------------------------------------------------
\* Specification of the aggregation of one refresh pass
\* ------------------------------------------------------------------------

\* Events of one pass.
MaxAggEvents == 3

\* The events a pass may collect: valid ones in several spellings of the
\* addresses, one that sells and buys the same token, one with an empty
\* bought address, one with an empty time.
AggEvents ==
    { SwapEvent("0xbb", "0xAA", "t1"),
      SwapEvent("0xAA", "0xaa", "t1"),
      SwapEvent("0xaa", "0xbb", "t1"),
      SwapEvent(" 0xaa", "0xbb", "t1"),
      SwapEvent("0xbb", "", "t1"),
      SwapEvent("0xbb", "0xaa", "") }

\* The sequences over S of length at most n.
SeqsUpTo(S, n) == UNION { [1..k -> S] : k \in 0..n }

\* The address lists getAllTokenAddresses may return.
AggAddressLists ==
    { <<"0xaa", "0xbb">>, <<"0xbb", "0xaa", "0xaa">>, <<" 0xaa">> }

\* The price results of a pass: per key no entry, or one of these.
AggPriceInfos(a) ==
    IF a = "0xaa"
    THEN { PriceInfo(150, 0, 0, "coingecko"), PriceInfo(150, 1, 0, "dexscreener"),
           PriceInfo(Null, 2, 1, "dexscreener") }
    ELSE { PriceInfo(Null, 0, 0, "dexscreener") }

AggPrices ==
    UNION { {f \in [K -> UNION {AggPriceInfos(a) : a \in K}] :
                \A a \in K : f[a] \in AggPriceInfos(a)} : K \in SUBSET LowerAddrs }

InitAgg ==
    /\ CtlIdle /\ SwapIdle /\ PriceIdle /\ FetchIdle /\ BackoffIdle
    /\ aggIn \in [events : SeqsUpTo(AggEvents, MaxAggEvents),
                  addresses : AggAddressLists,
                  prices : AggPrices]
    /\ aggOut = NoAggOut

\* The grouping loop over the collected events.
AggGroup ==
    /\ aggOut.pc = "idle"
    /\ aggOut' = [aggOut EXCEPT !.pc = "grouped",
                                !.grouped = GroupEvents(aggIn.events)]
    /\ UNCHANGED <<aggIn, ctlVars, swapVars, priceVars, fetchVars, backoffVars>>

\* The records built once fetchPrices has resolved, and the filter: classes
\* is the source attribution of each address of the list, data is
\* what the pass returns with CONFIG as it is, unfiltered what it returns
\* with CONFIG.FILTER_TOKENS_WITHOUT_DATA set to false.
AggBuild ==
    /\ aggOut.pc = "grouped"
    /\ aggOut' = [aggOut EXCEPT
                     !.pc = "built",
                     !.classes = [i \in DOMAIN aggIn.addresses |->
                                     SourceClass(aggIn.addresses[i], aggOut.grouped,
                                                 aggIn.prices)],
                     !.data = BuildTokenData(aggIn.addresses, aggOut.grouped,
                                             aggIn.prices, now,
                                             FILTER_TOKENS_WITHOUT_DATA),
                     !.unfiltered = BuildTokenData(aggIn.addresses, aggOut.grouped,
                                                   aggIn.prices, now, FALSE)]
    /\ UNCHANGED <<aggIn, ctlVars, swapVars, priceVars, fetchVars, backoffVars>>

NextAgg == AggGroup \/ AggBuild

SpecAgg == InitAgg /\ [][NextAgg]_vars

\* The events of the pass that carry all required fields.
ValidIdx == {k \in DOMAIN aggIn.events : EventHasRequiredFields(aggIn.events[k])}

\* Swap-collector counts of address a, counted over the events themselves.
SwapBuys(a) ==
    Cardinality({k \in ValidIdx :
                    trim(toLowerCase(aggIn.events[k].token_bought_address)) = a})
SwapSells(a) ==
    Cardinality({k \in ValidIdx :
                    trim(toLowerCase(aggIn.events[k].token_sold_address)) = a})

\* Price-source counts of address a, read from the price result.
PriceBuys(a) == IF a \in DOMAIN aggIn.prices THEN aggIn.prices[a].buys ELSE 0
PriceSells(a) == IF a \in DOMAIN aggIn.prices THEN aggIn.prices[a].sells ELSE 0

\* C5: every record of a built snapshot carries, for its (normalized)
\* address, buys = price-source buys + swap-collector buys and sells =
\* price-source sells + swap-collector sells of that pass, neither negative,
\* and the price-source price as currentPrice.
C5_CombinedCounts ==
    aggOut.pc = "built" =>
        \A i \in DOMAIN aggOut.data :
            LET r == aggOut.data[i]
                a == trim(toLowerCase(r.contractAddress))
            IN /\ r.info.buys = PriceBuys(a) + SwapBuys(a)
               /\ r.info.sells = PriceSells(a) + SwapSells(a)
               /\ r.info.buys >= 0 /\ r.info.sells >= 0
               /\ r.currentPrice = PriceInfoOf(aggIn.prices, a).usd

\* The example of the claim: swap counts {buys: 2, sells: 1} and a price
\* result {usd: 1.50, buys: 1, sells: 0} give price 1.50, buys 3, sells 1.
C5_Witness ==
    /\ aggOut.pc = "built"
    /\ SwapBuys("0xaa") = 2 /\ SwapSells("0xaa") = 1
    /\ "0xaa" \in DOMAIN aggIn.prices
    /\ aggIn.prices["0xaa"] = PriceInfo(150, 1, 0, "dexscreener")
    /\ \E i \in DOMAIN aggOut.data :
          /\ aggOut.data[i].contractAddress = "0xaa"
          /\ aggOut.data[i].currentPrice = 150
          /\ aggOut.data[i].info.buys = 3
          /\ aggOut.data[i].info.sells = 1
    /\ \E i \in DOMAIN aggOut.data :
          /\ aggOut.data[i].contractAddress = "0xaa"
          /\ aggOut.data[i].currentPrice = 150
          /\ aggOut.data[i].info.buys = 3
          /\ aggOut.data[i].info.sells = 1


\* The address has no swap activity and no price data in the pass.
NoDataFor(a) ==
    /\ SwapBuys(a) = 0 /\ SwapSells(a) = 0
    /\ a \in DOMAIN aggIn.prices =>
          /\ aggIn.prices[a].usd = Null
          /\ aggIn.prices[a].buys = 0
          /\ aggIn.prices[a].sells = 0

\* C11: with the filter option enabled, an address of the address list that
\* has no swap activity and no price data has no record in the output of
\* the pass; with the option disabled it has one for each of its places in
\* the list, with currentPrice = null, buys = 0 and sells = 0.
C11_FilterTokensWithoutData ==
    aggOut.pc = "built" =>
        \A i \in DOMAIN aggIn.addresses :
            NoDataFor(trim(toLowerCase(aggIn.addresses[i]))) =>
                /\ FILTER_TOKENS_WITHOUT_DATA =>
                      \A j \in DOMAIN aggOut.data :
                          aggOut.data[j].contractAddress # aggIn.addresses[i]
                /\ Len(aggOut.unfiltered) = Len(aggIn.addresses)
                /\ aggOut.unfiltered[i].contractAddress = aggIn.addresses[i]
                /\ aggOut.unfiltered[i].currentPrice = Null
                /\ aggOut.unfiltered[i].info.buys = 0
                /\ aggOut.unfiltered[i].info.sells = 0

\* A pass in which "0xbb" has a price entry without price or counts and no
\* swaps, while "0xaa" has data: the output holds "0xaa" only.
C11_Witness ==
    /\ aggOut.pc = "built"
    /\ aggIn.addresses = <<"0xaa", "0xbb">>
    /\ "0xbb" \in DOMAIN aggIn.prices
    /\ NoDataFor("0xbb") /\ ~NoDataFor("0xaa")
    /\ Len(aggOut.data) = 1 /\ aggOut.data[1].contractAddress = "0xaa"
    /\ Len(aggOut.unfiltered) = 2
    /\ aggOut.unfiltered[2].contractAddress = "0xbb"
    /\ aggOut.unfiltered[2].currentPrice = Null

\* The sum of f[k].sells, and of f[k].buys, over the keys of f.
RECURSIVE SumSells(_, _)
SumSells(f, keys) ==
    IF keys = {} THEN 0
    ELSE LET k == CHOOSE x \in keys : TRUE
         IN f[k].sells + SumSells(f, keys \ {k})

RECURSIVE SumBuys(_, _)
SumBuys(f, keys) ==
    IF keys = {} THEN 0
    ELSE LET k == CHOOSE x \in keys : TRUE
         IN f[k].buys + SumBuys(f, keys \ {k})

\* C27: once the events are grouped, the entry of every normalized address
\* counts as sells the valid events that sold it and as buys the valid
\* events that bought it (an address without entry has none of either), and
\* the sells of all entries, like the buys, add up to the number of valid
\* events.
C27_GroupedCountsPerAddress ==
    aggOut.pc \in {"grouped", "built"} =>
        /\ \A a \in LowerAddrs \cup DOMAIN aggOut.grouped :
              /\ GroupedGet(aggOut.grouped, a).sells = SwapSells(a)
              /\ GroupedGet(aggOut.grouped, a).buys = SwapBuys(a)
        /\ SumSells(aggOut.grouped, DOMAIN aggOut.grouped) = Cardinality(ValidIdx)
        /\ SumBuys(aggOut.grouped, DOMAIN aggOut.grouped) = Cardinality(ValidIdx)

\* Three events were grouped: one without a bought address, one that sold
\* and bought 0xaa in two spellings, one that sold " 0xaa" for 0xbb.
C27_Witness ==
    /\ aggOut.pc = "grouped"
    /\ Len(aggIn.events) = 3 /\ Cardinality(ValidIdx) = 2
    /\ DOMAIN aggOut.grouped = {"0xaa", "0xbb"}
    /\ aggOut.grouped["0xaa"] = [sells |-> 2, buys |-> 1]
    /\ aggOut.grouped["0xbb"] = [sells |-> 0, buys |-> 1]

\* The records of all whose class at the same place is not "none", from place
\* i on.
RECURSIVE Attributed(_, _, _)
Attributed(all, classes, i) ==
    IF i > Len(all) THEN <<>>
    ELSE (IF classes[i] # "none" THEN <<all[i]>> ELSE <<>>)
         \o Attributed(all, classes, i + 1)

\* C31: every address of the address list is given one of the five source
\* classes, and with the filter enabled the output of the pass is the
\* records of the addresses whose class is not "none", in the order of the
\* address list.
C31_FilterRemovesExactlyNone ==
    aggOut.pc = "built" =>
        /\ DOMAIN aggOut.classes = DOMAIN aggIn.addresses
        /\ \A i \in DOMAIN aggOut.classes :
              aggOut.classes[i] \in {"dune", "coingecko", "dexscreener", "both", "none"}
        /\ FILTER_TOKENS_WITHOUT_DATA =>
              aggOut.data = Attributed(aggOut.unfiltered, aggOut.classes, 1)

\* ------------------------------------------------------------------------
\* The swap collector (fetchSwapEvents, fetchAllSwapEvents)
\* ------------------------------------------------------------------------

\* const batchSize = 10000, scaled down: the page size of the model.
batchSize == 2

\* Rows the feed holds at most.
MaxFeedRows == 5

\* Rows of the feed that are not well-formed events, at most.
MaxOddRows == 1

\* Requests of one collection that fail or come back malformed, at most.
MaxFailures == 5

\* The largest finite maxEvents argument of the model.
MaxMaxEvents == 3

\* maxEvents = Infinity: above every length of the model.
Infinity == 1000000

\* Maximum number of retries for API calls / delay between retries (ms).
MAX_RETRIES_DUNE == 3
RETRY_DELAY == 1000

\* A row of the feed: "ok" carries the three required fields, "blank"
\* carries them as strings of which one is empty, "bad" lacks one.
RowKinds == {"ok", "blank", "bad"}

\* isValidSwapEvent(row): the three fields are strings.
isValidSwapEvent(kind) == kind # "bad"

\* The feeds of the model.
Feeds ==
    { f \in SeqsUpTo(RowKinds, MaxFeedRows) :
        Cardinality({i \in DOMAIN f : f[i] # "ok"}) <= MaxOddRows }

\* The indices of the rows the feed returns for ?limit=&offset=.
FeedPage(feed, limit, offset) ==
    Slice([i \in DOMAIN feed |-> i], offset, offset + limit)

\* res.data.result.rows.filter(isValidSwapEvent): events are named by their
\* row's index in the feed.
ValidEvents(feed, rows) ==
    LET valid(i) == isValidSwapEvent(feed[i]) IN SelectSeq(rows, valid)

\* LoopBody without the test for a short page.
LoopBodyNoShortPage(st, events, maxEvents) ==
    LET s1 == IF Len(events) = 0
              THEN [st EXCEPT !.consecutiveEmptyPages = @ + 1,
                              !.hasMore = st.consecutiveEmptyPages + 1 < 2]
              ELSE [st EXCEPT !.consecutiveEmptyPages = 0,
                              !.allEvents = @ \o events,
                              !.offset = @ + Len(events)]
    IN IF Len(s1.allEvents) >= maxEvents
       THEN [s1 EXCEPT !.allEvents = Slice(@, 0, maxEvents), !.hasMore = FALSE]
       ELSE s1

\* LoopBody that never resets the count of empty pages.
LoopBodyNoReset(st, events, maxEvents) ==
    LET s1 == IF Len(events) = 0
              THEN [st EXCEPT !.consecutiveEmptyPages = @ + 1,
                              !.hasMore = st.consecutiveEmptyPages + 1 < 2]
              ELSE [st EXCEPT !.allEvents = @ \o events,
                              !.offset = @ + Len(events),
                              !.hasMore = ~(Len(events) < batchSize)]
    IN IF Len(s1.allEvents) >= maxEvents
       THEN [s1 EXCEPT !.allEvents = Slice(@, 0, maxEvents), !.hasMore = FALSE]
       ELSE s1

\* LoopBody that stops at maxEvents without cutting the result to it.
LoopBodyNoSlice(st, events, maxEvents) ==
    LET s1 == IF Len(events) = 0
              THEN [st EXCEPT !.consecutiveEmptyPages = @ + 1,
                              !.hasMore = st.consecutiveEmptyPages + 1 < 2]
              ELSE [st EXCEPT !.consecutiveEmptyPages = 0,
                              !.allEvents = @ \o events,
                              !.offset = @ + Len(events),
                              !.hasMore = ~(Len(events) < batchSize)]
    IN IF Len(s1.allEvents) >= maxEvents
       THEN [s1 EXCEPT !.hasMore = FALSE]
       ELSE s1

\* LoopBody that moves the offset on by one after an empty page.
LoopBodySkipsOnEmpty(st, events, maxEvents) ==
    LET s1 == IF Len(events) = 0
              THEN [st EXCEPT !.consecutiveEmptyPages = @ + 1,
                              !.offset = @ + 1,
                              !.hasMore = st.consecutiveEmptyPages + 1 < 2]
              ELSE [st EXCEPT !.consecutiveEmptyPages = 0,
                              !.allEvents = @ \o events,
                              !.offset = @ + Len(events),
                              !.hasMore = ~(Len(events) < batchSize)]
    IN IF Len(s1.allEvents) >= maxEvents
       THEN [s1 EXCEPT !.allEvents = Slice(@, 0, maxEvents), !.hasMore = FALSE]
       ELSE s1

\* The body of the while loop once the page has come back.
LoopBody(st, events, maxEvents) ==
    LET s1 == IF Len(events) = 0
              THEN [st EXCEPT !.consecutiveEmptyPages = @ + 1,
                              !.hasMore = st.consecutiveEmptyPages + 1 < 2]
              ELSE [st EXCEPT !.consecutiveEmptyPages = 0,
                              !.allEvents = @ \o events,
                              !.offset = @ + Len(events),
                              !.hasMore = ~(Len(events) < batchSize)]
    IN IF Len(s1.allEvents) >= maxEvents
       THEN [s1 EXCEPT !.allEvents = Slice(@, 0, maxEvents), !.hasMore = FALSE]
       ELSE s1

\* while (hasMore && allEvents.length < maxEvents)
LoopTest(st, maxEvents) == st.hasMore /\ Len(st.allEvents) < maxEvents

\* A page fetch as the log records it.
Call(offset) ==
    [offset |-> offset, limit |-> batchSize, attempts |-> 1, errors |-> 0,
     waited |-> 0, rows |-> 0 - 1, events |-> 0, done |-> FALSE]

\* The loop test, and then either the next fetchSwapEvents(batchSize, offset)
\* or the return.  log is the log once the last page has been recorded.
Iterate(st, log) ==
    IF LoopTest(st, swIn.maxEvents)
    THEN /\ sw' = [st EXCEPT !.pc = "await", !.retryCount = 0]
         /\ swLog' = [log EXCEPT !.calls = Append(@, Call(st.offset))]
    ELSE /\ sw' = [st EXCEPT !.pc = "done"]
         /\ swLog' = log

\* fetchSwapEvents has returned events to the loop, whose locals are st
\* (rows is the number of rows the feed sent, -1 if it sent none): the loop
\* body runs, then the loop test.
PageReturned(st, events, rows) ==
    LET n == Len(swLog.calls)
        log == [calls |-> [swLog.calls EXCEPT ![n].rows = rows,
                                              ![n].events = Len(events),
                                              ![n].done = TRUE],
                acc |-> swLog.acc \o events]
    IN Iterate(LoopBody(st, events, swIn.maxEvents), log)

notSwap == <<ctlVars, aggVars, priceVars, fetchVars, backoffVars>>

\* fetchAllSwapEvents(maxEvents) is called.
SwapCall ==
    /\ sw.pc = "idle"
    /\ Iterate(sw, swLog)
    /\ UNCHANGED <<swIn, notSwap>>

\* The request is answered with the rows of the feed at the offset.
HttpRows ==
    /\ sw.pc = "await"
    /\ LET rows == FeedPage(swIn.feed, batchSize, sw.offset)
       IN PageReturned(sw, ValidEvents(swIn.feed, rows), Len(rows))
    /\ UNCHANGED <<swIn, notSwap>>

\* The request is answered without a rows array: fetchSwapEvents returns [].
HttpMalformed ==
    /\ sw.pc = "await"
    /\ sw.failures < MaxFailures
    /\ PageReturned([sw EXCEPT !.failures = @ + 1], <<>>, 0 - 1)
    /\ UNCHANGED <<swIn, notSwap>>

\* The log with one more failed request of the page fetch under way.
Failed(log) == [log EXCEPT !.calls[Len(log.calls)].errors = @ + 1]

\* HttpError without the retries: the first failure returns [].
HttpErrorNoRetry ==
    /\ sw.pc = "await"
    /\ sw.failures < MaxFailures
    /\ LET n == Len(swLog.calls)
           log == [calls |-> [swLog.calls EXCEPT ![n].errors = @ + 1,
                                                 ![n].done = TRUE],
                   acc |-> swLog.acc]
       IN Iterate(LoopBody([sw EXCEPT !.failures = @ + 1], <<>>, swIn.maxEvents), log)
    /\ UNCHANGED <<swIn, notSwap>>

\* The request fails: fetchSwapEvents waits RETRY_DELAY to try again, or,
\* the retries used up, returns [].
HttpError ==
    /\ sw.pc = "await"
    /\ sw.failures < MaxFailures
    /\ IF sw.retryCount < MAX_RETRIES_DUNE
       THEN /\ sw' = [sw EXCEPT !.pc = "retryWait", !.failures = @ + 1]
            /\ swLog' = Failed(swLog)
       ELSE LET n == Len(swLog.calls)
                log == [calls |-> [swLog.calls EXCEPT ![n].errors = @ + 1,
                                                      ![n].done = TRUE],
                        acc |-> swLog.acc]
            IN Iterate(LoopBody([sw EXCEPT !.failures = @ + 1], <<>>, swIn.maxEvents),
                       log)
    /\ UNCHANGED <<swIn, notSwap>>

\* The retry delay is over: fetchSwapEvents(limit, offset, retryCount + 1).
RetryTimer ==
    /\ sw.pc = "retryWait"
    /\ sw' = [sw EXCEPT !.pc = "await", !.retryCount = @ + 1]
    /\ swLog' = [swLog EXCEPT !.calls[Len(swLog.calls)].attempts = @ + 1,
                              !.calls[Len(swLog.calls)].waited = @ + RETRY_DELAY]
    /\ UNCHANGED <<swIn, notSwap>>

InitSwap ==
    /\ CtlIdle /\ AggIdle /\ PriceIdle /\ FetchIdle /\ BackoffIdle
    /\ swIn \in [feed : Feeds, maxEvents : 0..MaxMaxEvents \cup {Infinity}]
    /\ sw = NoSw
    /\ swLog = NoSwLog

NextSwap ==
    \/ SwapCall
    \/ HttpRows
    \/ HttpMalformed
    \/ HttpError
    \/ RetryTimer

SpecSwap == InitSwap /\ [][NextSwap]_vars


\* ------------------------------------------------------------------------
\* Properties of the swap collector (under SpecSwap)
\* ------------------------------------------------------------------------

\* The page fetches that have returned.
DoneCalls == {i \in DOMAIN swLog.calls : swLog.calls[i].done}

\* The last page fetch made.
LastCall == Len(swLog.calls)

\* C8 as stated: after the first page for which the feed returns fewer rows
\* than the page size, no further page is requested.
C8_Original_StopsAfterShortPage ==
    \A i \in DoneCalls :
        (swLog.calls[i].rows >= 0 /\ swLog.calls[i].rows < batchSize)
            => i = LastCall /\ sw.pc = "done"

\* C8 (amended): collection stops right after the first page fetch that
\* yields at least one and fewer than batchSize events, with no further
\* request; so, unless maxEvents cuts it short, pages yielding batchSize,
\* batchSize and k events (0 < k < batchSize) make exactly three page
\* requests and a result of 2 * batchSize + k events.
C8_StopsAfterShortNonEmptyPage ==
    /\ \A i \in DoneCalls :
          (swLog.calls[i].events > 0 /\ swLog.calls[i].events < batchSize)
              => i = LastCall /\ sw.pc = "done"
    /\ \A k \in 1..(batchSize - 1) :
          ( /\ Len(swLog.calls) >= 3
            /\ {1, 2, 3} \subseteq DoneCalls
            /\ swLog.calls[1].events = batchSize
            /\ swLog.calls[2].events = batchSize
            /\ swLog.calls[3].events = k
            /\ swIn.maxEvents >= 2 * batchSize + k )
          => /\ sw.pc = "done"
             /\ Len(swLog.calls) = 3
             /\ Len(sw.allEvents) = 2 * batchSize + k

\* Pages of batchSize, batchSize and 1 rows have been fetched and the
\* collection has returned.
C8_Witness ==
    /\ sw.pc = "done"
    /\ Len(swLog.calls) = 3
    /\ swLog.calls[1].rows = batchSize
    /\ swLog.calls[2].rows = batchSize
    /\ swLog.calls[3].rows = 1 /\ swLog.calls[3].events = 1
    /\ Len(sw.allEvents) = 2 * batchSize + 1

\* The number of empty pages at the end of the returned ones.
RECURSIVE TrailingEmpty(_)
TrailingEmpty(n) ==
    IF n = 0 \/ swLog.calls[n].events # 0 THEN 0 ELSE 1 + TrailingEmpty(n - 1)

\* C9: two consecutive page fetches that return no events end the
\* collection at once, whatever the feed still holds; the count of empty
\* pages is that of the empty pages since the last non-empty one, so a
\* collection whose last page was empty ended on two empty pages in a row.
C9_TwoConsecutiveEmptyPages ==
    LET n == Cardinality(DoneCalls)
    IN /\ \A i \in DoneCalls :
             (i > 1 /\ swLog.calls[i].events = 0 /\ swLog.calls[i - 1].events = 0)
                 => i = LastCall /\ sw.pc = "done"
       /\ sw.consecutiveEmptyPages = TrailingEmpty(n)
       /\ (sw.pc = "done" /\ n > 0 /\ swLog.calls[n].events = 0)
             => n > 1 /\ swLog.calls[n - 1].events = 0

\* An empty page, then a page with events, then two empty pages: the
\* collection has returned although the feed holds rows past the offset.
C9_Witness ==
    /\ sw.pc = "done"
    /\ Len(swLog.calls) = 4
    /\ swLog.calls[1].events = 0
    /\ swLog.calls[2].events > 0
    /\ swLog.calls[3].events = 0
    /\ swLog.calls[4].events = 0
    /\ sw.offset < Len(swIn.feed)

\* C10: with a finite maxEvents the result never holds more than maxEvents
\* events; once the events accumulated reach maxEvents the collection has
\* returned, with exactly the first maxEvents of them in feed order, and
\* maxEvents = 0 makes no request.
C10_MaxEvents ==
    /\ Len(sw.allEvents) <= swIn.maxEvents
    /\ Len(swLog.acc) >= swIn.maxEvents
          => /\ sw.pc \in {"idle", "done"}
             /\ sw.pc = "done" => sw.allEvents = Slice(swLog.acc, 0, swIn.maxEvents)
    /\ \A i, j \in DOMAIN sw.allEvents : i < j => sw.allEvents[i] < sw.allEvents[j]
    /\ swIn.maxEvents = 0 => swLog.calls = <<>>

\* More events than maxEvents have been accumulated, and the result was cut.
C10_Witness ==
    /\ sw.pc = "done"
    /\ swIn.maxEvents > 0
    /\ Len(swLog.acc) > swIn.maxEvents
    /\ Len(sw.allEvents) = swIn.maxEvents


\* C26: a page fetch whose request fails is retried with the same offset
\* and limit after 1000 ms, up to 3 times; a fetch whose 4 requests all
\* failed returns an empty page, which the loop counts as an empty page (it
\* adds no event, keeps the offset and goes on to the loop test), and the
\* collector goes on or returns.
C26_PageFetchRetriedThenEmpty ==
    /\ [](\A n \in DOMAIN swLog.calls :
             LET c == swLog.calls[n]
                 waiting == n = Len(swLog.calls) /\ sw.pc = "retryWait"
             IN /\ c.attempts <= 4 /\ c.errors <= 4
                /\ c.waited = (c.attempts - 1) * 1000
                /\ c.limit = batchSize
                /\ (~c.done) => (n = Len(swLog.calls) /\ c.offset = sw.offset)
                /\ c.errors = (IF waiting \/ (c.done /\ c.errors = 4)
                               THEN c.attempts ELSE c.attempts - 1)
                /\ c.errors = 4 => (c.done /\ c.events = 0))
    /\ [][(sw.pc = "await" /\ swLog'.calls[Len(swLog.calls)].errors = 4) =>
             /\ sw'.consecutiveEmptyPages = sw.consecutiveEmptyPages + 1
             /\ sw'.allEvents = sw.allEvents
             /\ sw'.offset = sw.offset
             /\ sw'.pc \in {"await", "done"}]_vars

\* The first page fetch failed four times and was counted as an empty page;
\* the collector has asked for the same offset again.
C26_Witness ==
    /\ Len(swLog.calls) = 2
    /\ swLog.calls[1].errors = 4 /\ swLog.calls[1].attempts = 4
    /\ swLog.calls[1].waited = 3000 /\ swLog.calls[1].done
    /\ swLog.calls[2].offset = swLog.calls[1].offset
    /\ sw.consecutiveEmptyPages = 1

\* C28: every event the collector has accumulated or returned comes from a
\* row that carries a non-empty sold address, bought address and timestamp,
\* and a page adds to the accumulated events and to the offset the number of
\* such rows among the rows the feed sent for it.
C28_ReturnedEventsNonEmptyFields ==
    /\ \A k \in DOMAIN swLog.acc : swIn.feed[swLog.acc[k]] = "ok"
    /\ \A k \in DOMAIN sw.allEvents : swIn.feed[sw.allEvents[k]] = "ok"
    /\ \A n \in DoneCalls :
          LET c == swLog.calls[n]
              page == FeedPage(swIn.feed, c.limit, c.offset)
          IN c.rows >= 0 =>
                c.events = Cardinality({ k \in DOMAIN page : swIn.feed[page[k]] = "ok" })
    /\ sw.offset = Len(swLog.acc)

\* The number of page fetches at the end of the first n for which the feed
\* sent no row (the request failed for good, came back malformed, or the
\* page was past the end of the feed).
RECURSIVE TrailingRowless(_)
TrailingRowless(n) ==
    IF n = 0 \/ swLog.calls[n].rows > 0 THEN 0 ELSE 1 + TrailingRowless(n - 1)

\* C29: a page for which the feed sent rows is not counted as an empty page,
\* whatever the validation dropped of it, and a collection does not return
\* on a full page of rows unless maxEvents is reached.
C29_DroppedRowsNotCountedEmptyOrShort ==
    LET n == Cardinality(DoneCalls)
    IN /\ sw.consecutiveEmptyPages = TrailingRowless(n)
       /\ (sw.pc = "done" /\ n > 0 /\ swLog.calls[n].rows = batchSize)
             => Len(swLog.acc) >= swIn.maxEvents

\* The events the first n page fetches returned, counted.
RECURSIVE EventsBefore(_)
EventsBefore(n) ==
    IF n = 0 THEN 0 ELSE swLog.calls[n].events + EventsBefore(n - 1)

\* C30: a page is requested only when every page before it has come back;
\* the first request is for offset 0 and every request is for the offset
\* that equals the number of events the pages before it returned, so the
\* offset of a request is not below that of the request before it and not
\* beyond the rows that one was sent; and when a page comes back empty after
\* a page that was not, the same offset has been requested again.
C30_PagesSequentialOffsetIsCount ==
    LET n == Cardinality(DoneCalls)
    IN /\ \A i \in DOMAIN swLog.calls :
             LET c == swLog.calls[i]
             IN /\ i < Len(swLog.calls) => c.done
                /\ c.offset = EventsBefore(i - 1)
                /\ i = 1 => c.offset = 0
                /\ i > 1 =>
                      LET b == swLog.calls[i - 1]
                      IN /\ b.offset <= c.offset
                         /\ c.offset <= b.offset + (IF b.rows > 0 THEN b.rows ELSE 0)
                         /\ b.events = 0 => c.offset = b.offset
       /\ TrailingEmpty(n) = 1 =>
             /\ Len(swLog.calls) = n + 1
             /\ swLog.calls[n + 1].offset = swLog.calls[n].offset
       /\ sw.pc \in {"await", "retryWait"} =>
             /\ Len(swLog.calls) = n + 1
             /\ swLog.calls[n + 1].offset = sw.offset

\* A full page of events, then an empty page, and the offset of the empty
\* page has been requested a second time.
C30_Witness ==
    /\ Len(swLog.calls) = 3
    /\ swLog.calls[1].offset = 0 /\ swLog.calls[1].events = batchSize
    /\ swLog.calls[2].offset = batchSize /\ swLog.calls[2].done
    /\ swLog.calls[2].events = 0
    /\ swLog.calls[3].offset = batchSize /\ ~swLog.calls[3].done

\* ------------------------------------------------------------------------
\* The primary price fetcher (priceService: fetchCoinGeckoPrices)
\* ------------------------------------------------------------------------

\* CACHE_DURATION of the price cache, in milliseconds.
PRICE_CACHE_DURATION == 30 * 60 * 1000

\* TOKEN_LIST_CACHE_DURATION of the address-to-id map.
TOKEN_LIST_CACHE_DURATION == 12 * 60 * 60 * 1000

\* MAX_RETRIES of the rate-limit handling, scaled down from 3.
MAX_RETRIES == 1

\* MAX_IDS_PER_REQUEST, scaled down from 100.
MAX_IDS_PER_REQUEST == 2

\* Calls of fetchCoinGeckoPrices in one run.
MaxPriceCalls == 2

\* The time that passes between two calls; the delays within a call are
\* seconds, below the steps of the model's clock.
Elapsed == {0, PRICE_CACHE_DURATION, TOKEN_LIST_CACHE_DURATION}

\* The address lists fetchCoinGeckoPrices is called with.
PriceAddressLists ==
    { <<"0xAA", "0xbb">>, <<"0xbb", "0xAA", "0xbb">> }

\* The active coins of /coins/list that have a platform entry for the chain:
\* platform is token.platforms[CHAIN_ID].
ListedTokens ==
    { [id |-> "coin-a", platform |-> "0xAA"], [id |-> "coin-b", platform |-> "0xbb"] }

\* A coin of /coins/list without a platform entry for the chain.
OtherChainToken == [id |-> "coin-c", platform |-> ""]

\* The bodies /coins/list may answer: coins of the chain among coins of
\* other chains.
Listings == { chain \cup {OtherChainToken} : chain \in SUBSET ListedTokens }

\* The usd values a price response carries.
UsdValues == {0, 150}

\* price || null, and the truthiness test of response.data[coinId].usd.
OrNull(usd) == IF usd = 0 THEN Null ELSE usd

\* The elements of a sequence.
Range(seq) == {seq[i] : i \in DOMAIN seq}

\* The bodies /simple/price may answer for the ids asked: any of the ids
\* may be missing.
PriceData(ids) == UNION { [K -> UsdValues] : K \in SUBSET Range(ids) }

\* The map fetchSeiTokensList builds from a listing.
TokensMapOf(listing) ==
    LET onChain == {t \in listing : t.platform # ""}
    IN [a \in {toLowerCase(t.platform) : t \in onChain} |->
           [id |-> (CHOOSE t \in onChain : toLowerCase(t.platform) = a).id,
            contractAddress |-> a]]

\* The cache test of a lookup that also turns down a cached null.
IsFreshUnlessNull(cache, address, time) ==
    /\ address \in DOMAIN cache
    /\ cache[address].price # Null
    /\ time - cache[address].timestamp < PRICE_CACHE_DURATION

\* cached && Date.now() - cached.timestamp < CACHE_DURATION
IsFresh(cache, address, time) ==
    /\ address \in DOMAIN cache
    /\ time - cache[address].timestamp < PRICE_CACHE_DURATION

\* priceCache.set(address, { price, timestamp: Date.now() })
CacheSet(cache, address, price, time) ==
    MapSet(cache, address, [price |-> price, timestamp |-> time])

\* The state fetchCoinGeckoPrices and its helpers read and write.
World ==
    [cache |-> priceCache, tokens |-> seiTokensMap, listAt |-> lastTokenListFetch,
     cg |-> cg, log |-> cgLog]

Commit(w) ==
    /\ priceCache' = w.cache
    /\ seiTokensMap' = w.tokens
    /\ lastTokenListFetch' = w.listAt
    /\ cg' = w.cg
    /\ cgLog' = w.log

\* The number of price requests sent so far that name the id.
Asked(log, id) ==
    IF id \in DOMAIN log.priceRequests THEN log.priceRequests[id] ELSE 0

\* axios.get is called on /coins/list: the request goes out.
ListRequest(w) == [w EXCEPT !.log.listRequests = @ + 1]

\* axios.get is called on /simple/price with the ids: the request goes out.
Request(w, ids) ==
    [w EXCEPT !.log.priceRequests =
                 [id \in DOMAIN @ \cup Range(ids) |->
                     Asked(w.log, id) + IF id \in Range(ids) THEN 1 ELSE 0]]

\* return prices
Finish(w) == [w EXCEPT !.cg.pc = "done"]

\* prices.set(address, price); limited says that the lookup of the address
\* ended on a 429 with the retries used up.
Resolve(w, address, price, limited) ==
    [w EXCEPT !.cg.prices = MapSet(@, address, price),
              !.log.limited = IF limited THEN @ \cup {address} ELSE @ \ {address}]

\* The chunk the loop is at.
Chunk(w) == w.cg.coinIdChunks[w.cg.chunkIndex + 1]

\* fetchPricesForCoinIds(chunk) is called.
StartChunk(w) ==
    Request([w EXCEPT !.cg.pc = "batch", !.cg.retryCount = 0], Chunk(w))

\* The chunk loop moves on: a delay before the next chunk, or the return.
NextChunk(w) ==
    IF w.cg.chunkIndex + 1 < Len(w.cg.coinIdChunks)
    THEN [w EXCEPT !.cg.chunkIndex = @ + 1, !.cg.pc = "chunkDelay"]
    ELSE Finish(w)

\* fetchPriceById(coinId, address) is called for the id the fallback is at.
StartSingle(w) ==
    Request([w EXCEPT !.cg.pc = "single", !.cg.retryCount = 0],
            <<Chunk(w)[w.cg.fb]>>)

\* coinIdsToFetch.slice(i, i + MAX_IDS_PER_REQUEST) for each i.
ChunksOf(ids) ==
    [k \in 1..CeilDiv(Len(ids), MAX_IDS_PER_REQUEST) |->
        Slice(ids, (k - 1) * MAX_IDS_PER_REQUEST, k * MAX_IDS_PER_REQUEST)]

\* The loop over uncachedAddresses for those the map does not hold.
RECURSIVE CacheUnknown(_, _, _)
CacheUnknown(w, unknown, time) ==
    IF unknown = <<>> THEN w
    ELSE CacheUnknown(
            Resolve([w EXCEPT !.cache = CacheSet(@, Head(unknown), Null, time)],
                    Head(unknown), Null, FALSE),
            Tail(unknown), time)

\* fetchCoinGeckoPrices once fetchSeiTokensList has returned tokensMap.
AfterTokensList(w, tokensMap, time) ==
    LET uncached == w.cg.uncachedAddresses
        known == SelectSeq(uncached, LAMBDA a : a \in DOMAIN tokensMap)
        unknown == SelectSeq(uncached, LAMBDA a : a \notin DOMAIN tokensMap)
        coinIdsToFetch == [i \in 1..Len(known) |-> tokensMap[known[i]].id]
        coinIdToAddress ==
            [id \in Range(coinIdsToFetch) |->
                known[CHOOSE i \in DOMAIN known :
                        /\ tokensMap[known[i]].id = id
                        /\ \A j \in DOMAIN known :
                              tokensMap[known[j]].id = id => j <= i]]
        w1 == CacheUnknown(w, unknown, time)
        w2 == [w1 EXCEPT !.cg.coinIdToAddress = coinIdToAddress,
                         !.cg.coinIdChunks = ChunksOf(coinIdsToFetch),
                         !.cg.chunkIndex = 0]
    IN IF Len(coinIdsToFetch) = 0 THEN Finish(w2) ELSE StartChunk(w2)

\* The catch of fetchPriceById when retries are used up, with no look at
\* the cache: the error is thrown on.
StaleOrThrowAlways(cache, address) == [threw |-> TRUE, value |-> Null]

\* The catch of fetchPriceById when a 429 arrives with retries used up: the
\* cached value, expired or not, or else the error is thrown on.
StaleOrThrow(cache, address) ==
    IF address \in DOMAIN cache
    THEN [threw |-> FALSE, value |-> cache[address].price]
    ELSE [threw |-> TRUE, value |-> Null]

\* The loop over Object.keys(batchPrices).
RECURSIVE ProcessBatch(_, _, _, _)
ProcessBatch(w, batchPrices, keys, time) ==
    IF keys = {} THEN w
    ELSE LET coinId == CHOOSE k \in keys : TRUE
             address == w.cg.coinIdToAddress[coinId]
             price == OrNull(batchPrices[coinId])
         IN ProcessBatch(
                Resolve([w EXCEPT !.cache = CacheSet(@, address, price, time)],
                        address, price, FALSE),
                batchPrices, keys \ {coinId}, time)

\* The first loop of fetchCoinGeckoPrices: the fresh entries are served, the
\* other addresses are kept for the lookup.
Partition(w, addresses, time) ==
    LET norm == [i \in DOMAIN addresses |-> toLowerCase(addresses[i])]
        fresh == {a \in Range(norm) : IsFresh(w.cache, a, time)}
        uncached == SelectSeq(norm, LAMBDA a : ~IsFresh(w.cache, a, time))
    IN [w EXCEPT
          !.cg = [NoCg EXCEPT !.calls = w.cg.calls + 1,
                              !.normalizedAddresses = norm,
                              !.prices = [a \in fresh |-> w.cache[a].price],
                              !.uncachedAddresses = uncached],
          !.log = [NoCgLog EXCEPT
                      !.age = [a \in Range(norm) \cap DOMAIN w.cache |->
                                  time - w.cache[a].timestamp]]]

\* LookupTokens that uses a cached map of any age.
LookupTokensNoExpiry(w, time) ==
    IF ~w.tokens.isNull
    THEN AfterTokensList(w, w.tokens.map, time)
    ELSE ListRequest([w EXCEPT !.cg.pc = "list"])

\* fetchSeiTokensList up to its request, and what follows if it makes none.
LookupTokens(w, time) ==
    IF ~w.tokens.isNull /\ time - w.listAt < TOKEN_LIST_CACHE_DURATION
    THEN AfterTokensList(w, w.tokens.map, time)
    ELSE ListRequest([w EXCEPT !.cg.pc = "list"])

notPrice == <<ctlVars, aggVars, swapVars, fetchVars, backoffVars>>

\* fetchCoinGeckoPrices(addresses) is called, some time after the call
\* before it.
PriceCall ==
    /\ cg.pc \in {"idle", "done"}
    /\ cg.calls < MaxPriceCalls
    /\ \E addresses \in PriceAddressLists, d \in Elapsed :
          LET w == Partition(World, addresses, now + d)
          IN /\ now' = now + d
             /\ Commit(IF w.cg.uncachedAddresses = <<>> THEN Finish(w)
                       ELSE LookupTokens(w, now + d))
    /\ UNCHANGED <<ctlButNow, aggVars, swapVars, fetchVars, backoffVars>>

\* /coins/list answers.
ListOk ==
    /\ cg.pc = "list"
    /\ \E listing \in Listings :
          LET tokensMap == TokensMapOf(listing)
              w == [World EXCEPT !.tokens = [isNull |-> FALSE, map |-> tokensMap],
                                 !.listAt = now,
                                 !.log.listing = listing]
          IN Commit(AfterTokensList(w, tokensMap, now))
    /\ UNCHANGED notPrice

\* ListError that answers a failure with an empty map, whatever is cached.
ListErrorEmptyMap ==
    /\ cg.pc = "list"
    /\ Commit(AfterTokensList([World EXCEPT !.log.listFailed = TRUE], <<>>, now))
    /\ UNCHANGED notPrice

\* ListError that returns at once, without an entry for any address.
ListErrorCachesNothing ==
    /\ cg.pc = "list"
    /\ Commit(Finish([World EXCEPT !.log.listFailed = TRUE]))
    /\ UNCHANGED notPrice

\* /coins/list fails: the map fetched before, or an empty one.
ListError ==
    /\ cg.pc = "list"
    /\ Commit(AfterTokensList([World EXCEPT !.log.listFailed = TRUE],
                              IF seiTokensMap.isNull THEN <<>> ELSE seiTokensMap.map,
                              now))
    /\ UNCHANGED notPrice

\* The batch request answers.
BatchOk ==
    /\ cg.pc = "batch"
    /\ \E batchPrices \in PriceData(Chunk(World)) :
          Commit(NextChunk(ProcessBatch(World, batchPrices, DOMAIN batchPrices, now)))
    /\ UNCHANGED notPrice

\* The batch request is answered 429: a retry after a delay, or, retries
\* used up, the error reaches the chunk's catch and the fallback begins.
Batch429 ==
    /\ cg.pc = "batch"
    /\ Commit(IF cg.retryCount < MAX_RETRIES
              THEN [World EXCEPT !.cg.pc = "batchWait", !.cg.retryCount = @ + 1]
              ELSE StartSingle([World EXCEPT !.cg.fb = 1]))
    /\ UNCHANGED notPrice

\* The batch request fails otherwise: the fallback begins.
BatchError ==
    /\ cg.pc = "batch"
    /\ Commit(StartSingle([World EXCEPT !.cg.fb = 1]))
    /\ UNCHANGED notPrice

\* The backoff delay of the batch request is over.
BatchRetry ==
    /\ cg.pc = "batchWait"
    /\ Commit(Request([World EXCEPT !.cg.pc = "batch"], Chunk(World)))
    /\ UNCHANGED notPrice

\* The delay before a later chunk is over.
ChunkDelay ==
    /\ cg.pc = "chunkDelay"
    /\ Commit(StartChunk(World))
    /\ UNCHANGED notPrice

\* The id and the address the fallback is at.
SingleId == Chunk(World)[cg.fb]
SingleAddress == cg.coinIdToAddress[SingleId]

\* The individual request answers.
SingleOk ==
    /\ cg.pc = "single"
    /\ \E data \in PriceData(<<SingleId>>) :
          LET price == IF SingleId \in DOMAIN data THEN OrNull(data[SingleId]) ELSE Null
              w == [World EXCEPT !.cache = CacheSet(@, SingleAddress, price, now),
                                 !.cg.pc = "singleDelay"]
          IN Commit(Resolve(w, SingleAddress, price, FALSE))
    /\ UNCHANGED notPrice

\* The individual request is answered 429: a retry after a delay, or,
\* retries used up, the cached value or the caller's catch.
Single429 ==
    /\ cg.pc = "single"
    /\ Commit(IF cg.retryCount < MAX_RETRIES
              THEN [World EXCEPT !.cg.pc = "singleWait", !.cg.retryCount = @ + 1]
              ELSE LET res == StaleOrThrow(priceCache, SingleAddress)
                   IN Resolve([World EXCEPT !.cg.pc = "singleDelay"], SingleAddress,
                              IF res.threw THEN Null ELSE res.value, TRUE))
    /\ UNCHANGED notPrice

\* The individual request fails otherwise: the caller's catch.
SingleError ==
    /\ cg.pc = "single"
    /\ Commit(Resolve([World EXCEPT !.cg.pc = "singleDelay"], SingleAddress, Null,
                      FALSE))
    /\ UNCHANGED notPrice

\* The backoff delay of the individual request is over.
SingleRetry ==
    /\ cg.pc = "singleWait"
    /\ Commit(Request([World EXCEPT !.cg.pc = "single"], <<SingleId>>))
    /\ UNCHANGED notPrice

\* The delay after an individual request is over.
SingleDelay ==
    /\ cg.pc = "singleDelay"
    /\ Commit(IF cg.fb < Len(Chunk(World))
              THEN StartSingle([World EXCEPT !.cg.fb = @ + 1])
              ELSE NextChunk(World))
    /\ UNCHANGED notPrice

InitPrice == CtlIdle /\ AggIdle /\ SwapIdle /\ PriceIdle /\ FetchIdle /\ BackoffIdle

NextPrice ==
    \/ PriceCall
    \/ ListOk
    \/ ListError
    \/ BatchOk
    \/ Batch429
    \/ BatchError
    \/ BatchRetry
    \/ ChunkDelay
    \/ SingleOk
    \/ Single429
    \/ SingleError
    \/ SingleRetry
    \/ SingleDelay

SpecPrice == InitPrice /\ [][NextPrice]_vars

\* ------------------------------------------------------------------------
\* Properties of the primary price fetcher (under SpecPrice)
\* ------------------------------------------------------------------------

\* The id the listing gives the token at the address.
CoinIdOf(address) ==
    (CHOOSE t \in ListedTokens : toLowerCase(t.platform) = address).id

\* The addresses of the call the map held an id for.
WithId == {cg.coinIdToAddress[id] : id \in DOMAIN cg.coinIdToAddress}

\* The number of times the address stands in the list of those to look up.
Occurrences(address) ==
    Cardinality({i \in DOMAIN cg.uncachedAddresses : cg.uncachedAddresses[i] = address})

\* The addresses of the call whose cache entry was younger than the TTL
\* when the call was made, and those whose entry was older.
FreshAtCall == {a \in DOMAIN cgLog.age : cgLog.age[a] < PRICE_CACHE_DURATION}
StaleAtCall == {a \in DOMAIN cgLog.age : cgLog.age[a] >= PRICE_CACHE_DURATION}

\* An address with a fresh cache entry, a null one included, is served from
\* the cache, and no price request of the call names its id.
FreshCausesNoRequest ==
    \A a \in FreshAtCall :
        /\ Asked(cgLog, CoinIdOf(a)) = 0
        /\ a \in DOMAIN cg.prices /\ cg.prices[a] = priceCache[a].price

\* C6 as stated: a fresh entry causes no request, and an entry older than
\* the TTL causes exactly one price request for its address.
C6_Original_StaleExactlyOneRefetch ==
    /\ FreshCausesNoRequest
    /\ cg.pc = "done" =>
          \A a \in StaleAtCall : Asked(cgLog, CoinIdOf(a)) = 1

\* C6 (amended): an address whose cache entry is younger than the TTL, a
\* 'no price' entry included, causes no price request.  An address whose
\* entry is older is looked up again: if the identifier map does not hold
\* it, no price request is made for it and 'no price' is cached anew;
\* otherwise at least one price request names its id, and at most
\* 2 * (MAX_RETRIES + 1) per occurrence of the address in the list (the
\* batch request and its retries, the individual request and its retries).
C6_FreshNoRequestStaleLookedUp ==
    /\ FreshCausesNoRequest
    /\ cg.pc = "done" =>
          \A a \in StaleAtCall :
              IF a \in WithId
              THEN /\ Asked(cgLog, CoinIdOf(a)) >= 1
                   /\ Asked(cgLog, CoinIdOf(a))
                          <= Occurrences(a) * 2 * (MAX_RETRIES + 1)
              ELSE /\ Asked(cgLog, CoinIdOf(a)) = 0
                   /\ priceCache[a] = [price |-> Null, timestamp |-> now]

\* The call has returned after sending more than one price request for an
\* address whose entry had expired, and none for another whose expired
\* entry it has replaced by a new 'no price' entry.
C6_Witness ==
    /\ cg.pc = "done"
    /\ \E a, b \in StaleAtCall :
          /\ a \in WithId /\ Asked(cgLog, CoinIdOf(a)) > 1
          /\ b \notin WithId /\ Asked(cgLog, CoinIdOf(b)) = 0

\* C7: when the lookup of an address ends on a 429 with the retries used
\* up, the call resolves the address to the price of its cache entry if it
\* has one, expired or not, and to 'no price' otherwise, and returns.
C7_RateLimitFallsBackToCache ==
    \A a \in cgLog.limited :
        /\ cg.pc \in {"singleDelay", "chunkDelay", "batch", "batchWait", "single",
                      "singleWait", "done"}
        /\ a \in DOMAIN cg.prices
        /\ cg.prices[a] = IF a \in DOMAIN priceCache THEN priceCache[a].price ELSE Null

\* The call has returned an expired entry's price for an address whose
\* requests were all answered 429.
C7_Witness ==
    /\ cg.pc = "done"
    /\ \E a \in cgLog.limited :
          /\ a \in StaleAtCall
          /\ priceCache[a].price = 150
          /\ now - priceCache[a].timestamp >= PRICE_CACHE_DURATION
          /\ cg.prices[a] = 150

\* C14: when the listing request fails, fetchSeiTokensList hands its caller
\* the cached map if there is one and an empty map otherwise, so that the
\* caller goes on (the ids it asks for are those the cached map holds); the
\* failure changes neither the cached map nor its fetch time, which only a
\* listing request that succeeded ever writes.
C14_ListingFailureKeepsMap ==
    [][ /\ (cg.pc = "list" /\ cgLog'.listFailed) =>
              /\ UNCHANGED <<seiTokensMap, lastTokenListFetch>>
              /\ cg'.pc \in {"batch", "done"}
              /\ WithId' = Range(cg.uncachedAddresses)
                             \cap (IF seiTokensMap.isNull THEN {}
                                   ELSE DOMAIN seiTokensMap.map)
        /\ (seiTokensMap' # seiTokensMap \/ lastTokenListFetch' # lastTokenListFetch) =>
              /\ cg.pc = "list" /\ ~cgLog'.listFailed
              /\ ~seiTokensMap'.isNull
              /\ lastTokenListFetch' = now ]_vars

\* The listing request of a call has failed while an expired map was
\* cached, and the call asks for the price of an id that map holds.
C14_Witness ==
    /\ cgLog.listFailed
    /\ ~seiTokensMap.isNull
    /\ now - lastTokenListFetch >= TOKEN_LIST_CACHE_DURATION
    /\ cg.pc = "batch"
    /\ WithId # {}

\* C20 as stated: a call of fetchCoinGeckoPrices sends a listing request
\* only if it is the first call or a map is cached that is 12 hours old or
\* older.
C20_Original_ListingOnlyFirstOrExpired ==
    [][(cg'.calls = cg.calls + 1 /\ cg'.pc = "list") =>
          \/ cg.calls = 0
          \/ /\ ~seiTokensMap.isNull
             /\ now' - lastTokenListFetch >= TOKEN_LIST_CACHE_DURATION]_vars

\* C20, amended: a call that has addresses to look up sends a listing
\* request, one, exactly if no map is cached (no listing request has
\* succeeded so far, on the first call or on a later one) or the cached map
\* is 12 hours old or older; a call with a younger map sends none.  A
\* listing request that succeeds replaces the map by the map of the
\* response's entries for the chain, lower-cased, whatever the map held
\* before, and sets its fetch time to the clock.
C20_ListingWhenNoMapOrExpired ==
    [][/\ cg'.calls = cg.calls + 1 =>
            /\ cg'.pc = "list" <=>
                  /\ cg'.uncachedAddresses # <<>>
                  /\ \/ seiTokensMap.isNull
                     \/ now' - lastTokenListFetch >= TOKEN_LIST_CACHE_DURATION
            /\ cgLog'.listRequests = IF cg'.pc = "list" THEN 1 ELSE 0
       /\ cg'.calls = cg.calls => cgLog'.listRequests = cgLog.listRequests
       /\ (cg.pc = "list" /\ ~cgLog'.listFailed) =>
            /\ ~seiTokensMap'.isNull
            /\ lastTokenListFetch' = now'
            /\ DOMAIN seiTokensMap'.map =
                  {toLowerCase(t.platform) : t \in cgLog'.listing \cap ListedTokens}
            /\ \A t \in cgLog'.listing \cap ListedTokens :
                  seiTokensMap'.map[toLowerCase(t.platform)] =
                     [id |-> t.id, contractAddress |-> toLowerCase(t.platform)]]_vars

\* The second call comes less than 12 hours after the first, whose listing
\* request failed: it has sent a listing request, and the map is the one of
\* its response, which held a coin of the chain and a coin of another.
C20_Witness ==
    /\ cg.calls = 2
    /\ now - StartTime < TOKEN_LIST_CACHE_DURATION
    /\ cgLog.listRequests = 1 /\ ~cgLog.listFailed
    /\ cgLog.listing = {[id |-> "coin-a", platform |-> "0xAA"], OtherChainToken}
    /\ DOMAIN seiTokensMap.map = {"0xaa"}
    /\ lastTokenListFetch = now

\* C21: when fetchCoinGeckoPrices has returned, every address it did not
\* serve from a fresh cache entry has a cache entry written during the call
\* (its timestamp is the clock of the call) that holds the outcome the call
\* returned for the address, a price or 'no price'.
C21_LookedUpOutcomesCached ==
    cg.pc = "done" =>
        \A a \in Range(cg.uncachedAddresses) :
            /\ a \in DOMAIN cg.prices
            /\ a \in DOMAIN priceCache
            /\ priceCache[a].timestamp = now
            /\ priceCache[a].price = cg.prices[a]

\* The number of chunks of the call that hold the id.
ChunksWith(id) ==
    Cardinality({k \in DOMAIN cg.coinIdChunks : id \in Range(cg.coinIdChunks[k])})

\* C24: in a call of fetchCoinGeckoPrices every chunk holds between 1 and
\* MAX_IDS_PER_REQUEST ids, every id to look up is in exactly one chunk, and
\* the requests go out one after another: the batch request of a chunk is
\* sent only when the chunks before it are done with, so an id of a later
\* chunk has not been asked for while an earlier chunk is at work.
C24_ChunksBoundedDisjointSequential ==
    cg.pc \notin {"idle", "list"} =>
        /\ \A k \in DOMAIN cg.coinIdChunks :
              /\ Len(cg.coinIdChunks[k]) >= 1
              /\ Len(cg.coinIdChunks[k]) <= MAX_IDS_PER_REQUEST
        /\ \A id \in DOMAIN cg.coinIdToAddress : ChunksWith(id) = 1
        /\ cg.pc # "done" =>
              \A k \in DOMAIN cg.coinIdChunks :
                 k > cg.chunkIndex + 1 =>
                    \A id \in Range(cg.coinIdChunks[k]) :
                       (\A j \in 1..(cg.chunkIndex + 1) :
                            id \notin Range(cg.coinIdChunks[j]))
                          => Asked(cgLog, id) = 0

\* C36: when the listing request of a call fails and no map is cached, the
\* call caches 'no price' at the current time for every address it did not
\* serve from a fresh entry, returns 'no price' for it and sends no price
\* request; and a call that follows such a call by less than the price TTL
\* serves these addresses from the cache and looks none of them up.
C36_FailedListingCachesNoPrice ==
    [][/\ (cg.pc = "list" /\ cgLog'.listFailed /\ seiTokensMap.isNull) =>
             /\ cg'.pc = "done"
             /\ cgLog'.priceRequests = <<>>
             /\ \A a \in Range(cg.uncachedAddresses) :
                   /\ a \in DOMAIN priceCache' /\ a \in DOMAIN cg'.prices
                   /\ priceCache'[a] = [price |-> Null, timestamp |-> now]
                   /\ cg'.prices[a] = Null
       /\ (/\ cg'.calls = cg.calls + 1
           /\ cgLog.listFailed /\ seiTokensMap.isNull
           /\ now' - now < PRICE_CACHE_DURATION) =>
             \A a \in Range(cg.uncachedAddresses) \cap Range(cg'.normalizedAddresses) :
                   /\ a \notin Range(cg'.uncachedAddresses)
                   /\ a \in DOMAIN priceCache /\ a \in DOMAIN cg'.prices
                   /\ cg'.prices[a] = Null
                   /\ priceCache'[a] = priceCache[a]]_vars

\* The first call's listing request failed with no map cached; the second
\* call, made before the entries expire, has returned 'no price' for both
\* addresses without a listing request or a price request.
C36_Witness ==
    /\ cg.calls = 2 /\ cg.pc = "done"
    /\ seiTokensMap.isNull
    /\ cgLog.listRequests = 0 /\ cgLog.priceRequests = <<>>
    /\ cgLog.age = [a \in {"0xaa", "0xbb"} |-> 0]
    /\ \A a \in {"0xaa", "0xbb"} :
          /\ priceCache[a] = [price |-> Null, timestamp |-> now]
          /\ cg.prices[a] = Null

\* ------------------------------------------------------------------------
\* fetchPrices (metadataService): the primary result, then the fallback
\* ------------------------------------------------------------------------

\* The number of addresses of one fallback request, scaled down from 30.
DexChunkSize == 2

\* Pair records in one fallback response, at most.
MaxPairs == 2

\* The address lists fetchPrices is called with.
FetchAddressLists ==
    { <<"0xAA", "0xbb">>, <<"0xaa", "0xAA", "0xbb">>, <<"0xbb", "0xaa", "0xbb">> }

\* addr => addr.toLowerCase() over a list.
Lowered(addresses) == [i \in DOMAIN addresses |-> toLowerCase(addresses[i])]

\* What fetchCoinGeckoPrices may return for the addresses: a Map whose keys
\* are lower-case addresses of the list, each with a price or null.
CoinGeckoResults(addresses) ==
    UNION { [K -> {Null, 150}] : K \in SUBSET Range(Lowered(addresses)) }

\* A DexScreenerPair: the base token's address, priceUsd and txns.h24.
DexPair(base, priceUsd, buys, sells) ==
    [base |-> base, priceUsd |-> priceUsd, buys |-> buys, sells |-> sells]

\* The pair records of the model; "" is a missing or empty field.
DexPairs ==
    { DexPair("0xAA", "2.5", 3, 1), DexPair("0xAA", "", 2, 1),
      DexPair("0xbb", "0", 0, 0), DexPair("0xbb", "", 0, 0),
      DexPair("", "2.5", 1, 1) }

\* parseFloat on the price strings of the model, in hundredths.
ParseFloat(str) == IF str = "2.5" THEN 250 ELSE 0

\* pair.priceUsd ? parseFloat(pair.priceUsd) : null
PairPrice(pair) == IF pair.priceUsd = "" THEN Null ELSE ParseFloat(pair.priceUsd)

\* FromCoinGecko that makes an entry for a null price as well.
FromCoinGeckoKeepsNull(coinGeckoPrices) ==
    [a \in DOMAIN coinGeckoPrices |->
        PriceInfo(coinGeckoPrices[a], 0, 0, "coingecko")]

\* The entries fetchPrices makes from the primary result.
FromCoinGecko(coinGeckoPrices) ==
    [a \in {k \in DOMAIN coinGeckoPrices : coinGeckoPrices[k] # Null} |->
        PriceInfo(coinGeckoPrices[a], 0, 0, "coingecko")]

\* response.data.forEach(pair => ...)
RECURSIVE ApplyPairs(_, _)
ApplyPairs(result, pairs) ==
    IF pairs = <<>> THEN result
    ELSE LET pair == Head(pairs)
         IN ApplyPairs(
                IF pair.base = "" THEN result
                ELSE MapSet(result, toLowerCase(pair.base),
                            PriceInfo(PairPrice(pair), pair.buys, pair.sells,
                                      "dexscreener")),
                Tail(pairs))

\* The chunk the loop is at.
DexChunk(f) == Slice(f.addressesForDexScreener, f.i, f.i + DexChunkSize)

\* The test of the for loop: the request for the next chunk, or the return.
DexLoop(f, log) ==
    IF f.i < Len(f.addressesForDexScreener)
    THEN /\ fp' = [f EXCEPT !.pc = "dex"]
         /\ fpLog' = [log EXCEPT !.requests = Append(@, DexChunk(f))]
    ELSE /\ fp' = [f EXCEPT !.pc = "done"]
         /\ fpLog' = log

notFetch == <<ctlVars, aggVars, swapVars, priceVars, backoffVars>>

\* fetchPrices(contractAddresses) is called and awaits the primary source.
FetchCall ==
    /\ fp.pc = "idle"
    /\ fp' = [fp EXCEPT !.pc = "primary"]
    /\ UNCHANGED <<fpIn, fpLog, notFetch>>

\* fetchCoinGeckoPrices has returned.
PrimaryReturns ==
    /\ fp.pc = "primary"
    /\ LET result == FromCoinGecko(fpIn.coinGeckoPrices)
           addressesWithCoinGeckoPrices == DOMAIN result
       IN DexLoop([fp EXCEPT
                      !.result = result,
                      !.addressesForDexScreener =
                          SelectSeq(Lowered(fpIn.addresses),
                                    LAMBDA a : a \notin addressesWithCoinGeckoPrices),
                      !.i = 0],
                  fpLog)
    /\ UNCHANGED <<fpIn, notFetch>>

\* The fallback request is answered with an array of pairs.
DexOk ==
    /\ fp.pc = "dex"
    /\ \E pairs \in SeqsUpTo(DexPairs, MaxPairs) :
          DexLoop([fp EXCEPT !.result = ApplyPairs(@, pairs),
                             !.i = @ + DexChunkSize],
                  fpLog)
    /\ UNCHANGED <<fpIn, notFetch>>

\* The fallback request fails: the error is logged.
DexError ==
    /\ fp.pc = "dex"
    /\ DexLoop([fp EXCEPT !.i = @ + DexChunkSize],
               [fpLog EXCEPT !.failed = @ \cup {Len(fpLog.requests)}])
    /\ UNCHANGED <<fpIn, notFetch>>

InitFetch ==
    /\ CtlIdle /\ AggIdle /\ SwapIdle /\ PriceIdle /\ BackoffIdle
    /\ fpIn \in UNION { { [addresses |-> l, coinGeckoPrices |-> m] :
                              m \in CoinGeckoResults(l) } : l \in FetchAddressLists }
    /\ fp = NoFp
    /\ fpLog = NoFpLog

NextFetch ==
    \/ FetchCall
    \/ PrimaryReturns
    \/ DexOk
    \/ DexError

SpecFetch == InitFetch /\ [][NextFetch]_vars

\* ------------------------------------------------------------------------
\* Properties of fetchPrices (under SpecFetch)
\* ------------------------------------------------------------------------

\* C12: when fetchPrices has returned, every address for which the primary
\* source produced a price carries that price with source 'coingecko',
\* whatever the fallback responses held.
C12_PrimaryPriority ==
    fp.pc = "done" =>
        \A a \in DOMAIN fpIn.coinGeckoPrices :
            fpIn.coinGeckoPrices[a] # Null =>
                /\ a \in DOMAIN fp.result
                /\ fp.result[a] = PriceInfo(fpIn.coinGeckoPrices[a], 0, 0, "coingecko")


\* C22: when fetchPrices has returned, an address of the call, however often
\* the address list named it, was named at most once in the fallback
\* requests of the call, and the result holds at most one entry for it.
C22_DuplicateAddressAskedOnce ==
    fp.pc = "done" =>
        \A a \in Range(Lowered(fpIn.addresses)) :
            /\ Cardinality({ p \in (DOMAIN fpLog.requests) \X (1..DexChunkSize) :
                               /\ p[2] \in DOMAIN fpLog.requests[p[1]]
                               /\ fpLog.requests[p[1]][p[2]] = a }) <= 1
            /\ Cardinality({ k \in DOMAIN fp.result : k = a }) <= 1


\* C23: when fetchPrices has returned, every batch of the fallback list was
\* requested once, in order, whether or not an earlier request failed, and
\* an address of a request that failed has no entry in the result.
C23_FailedBatchLeavesNoEntry ==
    fp.pc = "done" =>
        /\ Len(fpLog.requests) * DexChunkSize >= Len(fp.addressesForDexScreener)
        /\ \A r \in DOMAIN fpLog.requests :
              fpLog.requests[r] =
                 Slice(fp.addressesForDexScreener, (r - 1) * DexChunkSize,
                       r * DexChunkSize)
        /\ \A r \in fpLog.failed :
              \A a \in Range(fpLog.requests[r]) : a \notin DOMAIN fp.result


\* The addresses named in the fallback requests of the call.
FallbackAsked == UNION { Range(fpLog.requests[r]) : r \in DOMAIN fpLog.requests }

\* C32: when fetchPrices has returned, every address of the call for which
\* the primary source returned no entry or a null price was named in a
\* fallback request, whether or not the request failed, and no address for
\* which it returned a price was.
C32_UnresolvedGoToFallback ==
    fp.pc = "done" =>
        \A a \in Range(Lowered(fpIn.addresses)) :
            LET priced == a \in DOMAIN fpIn.coinGeckoPrices
                          /\ fpIn.coinGeckoPrices[a] # Null
            IN a \in FallbackAsked <=> ~priced

\* The primary source priced 0xaa, returned null for 0xbb; the one fallback
\* request named 0xbb alone and failed.
C32_Witness ==
    /\ fp.pc = "done"
    /\ fpIn.coinGeckoPrices = [a \in {"0xaa", "0xbb"} |-> IF a = "0xaa" THEN 150 ELSE Null]
    /\ FallbackAsked = {"0xbb"}
    /\ fpLog.failed = {1}

\* ------------------------------------------------------------------------
\* The rate-limit handling of the primary requests (priceService.ts):
\* one call of fetchPricesForCoinIds or fetchPriceById with its retries
\* ------------------------------------------------------------------------

\* MAX_RETRIES at the value of the source (the model of the whole fetcher
\* above runs with a smaller one).
MAX_RETRIES_UNSCALED == 3

INITIAL_RETRY_DELAY == 1000
MAX_RETRY_DELAY == 10000

\* The outcomes of a request: an answer, a rate-limit response, another
\* error response, no response.
BackoffOutcomes == {"200", "429", "500", "timeout"}

\* The ids a request is made for.
BackoffIds == {"coin-a", "coin-b"}

\* The cache entry of the address when fetchPriceById is called: none, one
\* with a null price, one with a price.
BackoffCached == {"none", "null", "price"}

\* BackoffDelay growing by INITIAL_RETRY_DELAY per retry instead of doubling.
BackoffDelayLinear(retryCount) ==
    LET d == INITIAL_RETRY_DELAY * (retryCount + 1)
    IN IF d < MAX_RETRY_DELAY THEN d ELSE MAX_RETRY_DELAY

\* Math.min(INITIAL_RETRY_DELAY * Math.pow(2, retryCount), MAX_RETRY_DELAY)
BackoffDelay(retryCount) ==
    LET d == INITIAL_RETRY_DELAY * 2 ^ retryCount
    IN IF d < MAX_RETRY_DELAY THEN d ELSE MAX_RETRY_DELAY

notBackoff == <<ctlVars, aggVars, swapVars, priceVars, fetchVars>>

\* fetchPricesForCoinIds([coinId]) or fetchPriceById(coinId, address) is
\* called with retryCount 0: the request goes out.
BackoffCall ==
    /\ bo.pc = "idle"
    /\ \E kind \in {"batch", "single"}, id \in BackoffIds, cached \in BackoffCached :
          /\ kind = "batch" => cached = "none"
          /\ bo' = [NoBo EXCEPT !.pc = "request", !.kind = kind, !.cached = cached,
                                !.coinId = id]
    /\ UNCHANGED notBackoff

\* The request is answered with usd for the id (null: the body does not
\* hold the id): fetchPricesForCoinIds returns the body; fetchPriceById
\* caches and returns the usd value if it is there and not 0, and caches and
\* returns null otherwise.
BackoffOk ==
    /\ bo.pc = "request"
    /\ \E usd \in {Null, 0, 150} :
          LET price == IF usd = Null THEN Null ELSE OrNull(usd)
          IN bo' = [bo EXCEPT
                       !.pc = "returned",
                       !.responses = Append(@, "200"),
                       !.usd = usd,
                       !.wrote = IF bo.kind = "single"
                                 THEN [set |-> TRUE, price |-> price] ELSE @,
                       !.value = IF bo.kind = "single" THEN price ELSE usd]
    /\ UNCHANGED notBackoff

\* The request is answered 429: a retry after the backoff delay while
\* retryCount < MAX_RETRIES; after that fetchPriceById returns the cached
\* value if there is an entry, and the error is thrown otherwise.
Backoff429 ==
    /\ bo.pc = "request"
    /\ IF bo.retryCount < MAX_RETRIES_UNSCALED
       THEN bo' = [bo EXCEPT !.pc = "delay",
                             !.responses = Append(@, "429"),
                             !.delays = Append(@, BackoffDelay(bo.retryCount))]
       ELSE IF bo.kind = "single" /\ bo.cached # "none"
            THEN bo' = [bo EXCEPT !.pc = "returned",
                                  !.responses = Append(@, "429"),
                                  !.value = IF bo.cached = "price" THEN 150 ELSE Null]
            ELSE bo' = [bo EXCEPT !.pc = "threw", !.responses = Append(@, "429")]
    /\ UNCHANGED notBackoff

\* The request fails otherwise: the error is thrown.
BackoffError ==
    /\ bo.pc = "request"
    /\ \E outcome \in BackoffOutcomes \ {"200", "429"} :
          bo' = [bo EXCEPT !.pc = "threw", !.responses = Append(@, outcome)]
    /\ UNCHANGED notBackoff

\* The delay is over: the function calls itself with retryCount + 1.
BackoffRetry ==
    /\ bo.pc = "delay"
    /\ bo' = [bo EXCEPT !.pc = "request", !.retryCount = @ + 1]
    /\ UNCHANGED notBackoff

InitBackoff ==
    CtlIdle /\ AggIdle /\ SwapIdle /\ PriceIdle /\ FetchIdle /\ BackoffIdle

NextBackoff ==
    \/ BackoffCall
    \/ BackoffOk
    \/ Backoff429
    \/ BackoffError
    \/ BackoffRetry

SpecBackoff == InitBackoff /\ [][NextBackoff]_vars

\* ------------------------------------------------------------------------
\* Properties of the rate-limit handling (under SpecBackoff)
\* ------------------------------------------------------------------------

\* C25: a primary request, batched or single-id, is sent at most 4 times (3
\* retries); every response before the last was a 429, so a failure that is
\* no rate-limit response ends the call without retry; and the delays
\* waited before the retries are 1000, 2000 and 4000 ms, in this order.
C25_BackoffThreeRetriesDoubling ==
    /\ bo.retryCount <= 3
    /\ Len(bo.responses) <= 4
    /\ \A i \in DOMAIN bo.responses :
          (i < Len(bo.responses) \/ bo.pc = "delay") => bo.responses[i] = "429"
    /\ bo.pc \in {"returned", "threw"} => Len(bo.responses) = bo.retryCount + 1
    /\ Len(bo.delays) = (IF bo.pc = "delay" THEN bo.retryCount + 1 ELSE bo.retryCount)
    /\ \A k \in DOMAIN bo.delays : bo.delays[k] = <<1000, 2000, 4000>>[k]
    /\ (bo.pc = "threw" /\ bo.responses[Len(bo.responses)] = "429")
          => Len(bo.responses) = 4

\* A single-id request was answered 429 four times: it was retried after
\* 1000, 2000 and 4000 ms and then gave up.
C25_Witness ==
    /\ bo.pc = "threw" /\ bo.kind = "single"
    /\ bo.responses = <<"429", "429", "429", "429">>
    /\ bo.delays = <<1000, 2000, 4000>>

\* C34: a single-id request that was answered with a price for the id,
\* the price 0 included, has cached that number for the address and
\* returned it.
C34_ZeroPriceIsAPrice ==
    (/\ bo.pc = "returned" /\ bo.kind = "single" /\ Len(bo.responses) > 0
     /\ bo.responses[Len(bo.responses)] = "200"
     /\ bo.usd # Null)
        => /\ bo.value = bo.usd
           /\ bo.wrote = [set |-> TRUE, price |-> bo.usd]

====
